---- MODULE Spec2Model ----
(***************************************************************************)
(* Model of fs-mcp: the path validator (repository.go), the repository     *)
(* registry with its reloading watcher (main.go) and the SSH connection    *)
(* pool (ssh.go).                                                          *)
(*                                                                         *)
(* Strings are sequences of one-character strings, so that prefix tests    *)
(* and formatting act on characters as they do in the program.             *)
(***************************************************************************)
EXTENDS Integers, Sequences, FiniteSets, TLC

VARIABLES
    \* ---- path validation / read_file request ----
    vpc,          \* position of the request: "none", "start", "done"
    vtool,        \* the handler that served it: "read_file", "repo://" or "list_files"
    basePath,     \* fs.BasePath() of the repository the request names
    reqPath,      \* caller-supplied path
    vres,         \* result of ValidatePath: [err, path]
    outcome,      \* outcome of handleReadFile
    fsAccess,     \* sequence of <<operation, path>> performed on the FileSystem
    \* ---- SSH connection pool ----
    conns,        \* SSHPool.conns: the map from connection key to session id
    pmu,          \* SSHPool.mu: [w: holder of the write lock, r: holders of the read lock]
    sess,         \* every SSHConnection ever dialed, by id
    tpc,          \* position of each caller inside getConnection
    trepo,        \* the caller's repo argument
    tconn,        \* the caller's local conn (session id, 0 when none)
    tprobed,      \* the session whose probe failed in this call, 0 when none
    tdials,       \* ssh.Dial attempts made in this call
    tret,         \* what getConnection returned: [conn, err]
    calls,        \* number of getConnection calls made so far
    cpc,          \* position of the shutdown path in SSHPool.Close
    \* ---- repository registry, configuration file and watcher ----
    repos,        \* the published map: repository name -> Repository
    reposMux,     \* the lock of repos: [w: write holder, r: read holders]
    configFile,   \* the configuration document as it is on disk
    events,       \* watcher.Events: file events not yet received
    watched,      \* whether the watcher holds a watch on the file at configPath
    wpc,          \* position of the watcher goroutine
    wev,          \* the event the watcher is handling (set of operations)
    wphase,       \* which reloadConfig call of the handler runs: 1 or 2
    wnew,         \* reloadConfig's local newRepos
    wdoc,         \* the document reloadConfig read from the file
    wbefore,      \* the published map when the running reloadConfig began
    rpc,          \* position of each request handler
    rname,        \* the repository name a getFileSystem call looks up
    rres,         \* result of a handler: lookup or listing
    rsnap,        \* the map value handleListRepos ranges over
    \* ---- a call of shouldSkip ----
    kpc,          \* position of the call: "none", "start", "done"
    kname,        \* the path argument
    kres,         \* the value returned
    \* ---- loading the configuration: main's start and the reloads after it ----
    lpc,          \* "none", "start", "serving" or "fatal" (log.Fatal in main)
    lerr,         \* what the last loadConfig or reloadConfig returned: [err, name]
    \* ---- one request served on a repository with a given file tree ----
    tree,         \* the nodes below the repository root
    qpc,          \* position of the request: "none", "ready", "done"
    qtool,        \* the tool or resource asked for
    qrepo,        \* the repository name of the request
    qarg,         \* its path, file or pattern argument
    qrecursive,   \* the recursive argument of list_files
    qres,         \* the result returned to the caller
    qaccess,      \* the FileSystem calls the handler made
    qdials,       \* the calls of sshPool.GetRemoteFS it made
    \* ---- one call of a RemoteFS method ----
    ftree,        \* the nodes below the base path on the remote host
    funreadable,  \* the remote directories whose listing fails
    funstattable, \* the remote nodes whose Stat fails although they are listed
    fpc,          \* position of the call: "none", "ready", "done"
    fop,          \* the method called: "Walk" or "ReadFile"
    fstart,       \* the root argument of Walk
    fprune,       \* the paths for which the visit function returns SkipDir
    ffail,        \* the paths for which the visit function returns an error
    fonerr,       \* what the visit function returns when it is handed an error
    fwalked,      \* Walk: [ret, out], the value returned and the visits made
    fio,          \* ReadFile: what the SFTP calls delivered
    fdata         \* ReadFile: what it returned

pathVars == <<vpc, vtool, basePath, reqPath, vres, outcome, fsAccess>>

poolVars == <<conns, pmu, sess, tpc, trepo, tconn, tprobed, tdials, tret, calls, cpc>>

regVars == <<repos, reposMux, configFile, events, watched, wpc, wev, wphase, wnew, wdoc, wbefore,
             rpc, rname, rres, rsnap>>

skipVars == <<kpc, kname, kres>>

loadVars == <<lpc, lerr>>

serveVars == <<tree, qpc, qtool, qrepo, qarg, qrecursive, qres, qaccess, qdials>>

remoteVars == <<ftree, funreadable, funstattable, fpc, fop, fstart, fprune, ffail, fonerr,
               fwalked, fio, fdata>>

vars == <<pathVars, poolVars, regVars, skipVars, loadVars, serveVars, remoteVars>>

\* the variables each part of the program leaves alone
outsidePath == <<poolVars, regVars, skipVars, loadVars, serveVars, remoteVars>>
outsidePool == <<pathVars, regVars, skipVars, loadVars, serveVars, remoteVars>>
outsideReg == <<pathVars, poolVars, skipVars, loadVars, serveVars, remoteVars>>
outsideSkip == <<pathVars, poolVars, regVars, loadVars, serveVars, remoteVars>>
outsideLoad == <<pathVars, poolVars, skipVars, serveVars, remoteVars>>
outsideServe == <<pathVars, poolVars, regVars, skipVars, loadVars, remoteVars>>
outsideRemote == <<pathVars, poolVars, regVars, skipVars, loadVars, serveVars>>

-----------------------------------------------------------------------------
(* Strings *)

Sep == "/"
Dot == <<".">>
DotDot == <<".", ".">>
Root == <<"/">>

HasPrefix(s, p) == Len(s) >= Len(p) /\ SubSeq(s, 1, Len(p)) = p

IsPrefixSeq(p, s) == Len(p) <= Len(s) /\ \A i \in 1..Len(p) : s[i] = p[i]

RECURSIVE SplitFrom(_, _, _, _)
SplitFrom(s, i, cur, acc) ==
    IF i > Len(s) THEN Append(acc, cur)
    ELSE SplitFrom(s, i + 1,
                   IF s[i] = Sep THEN <<>> ELSE Append(cur, s[i]),
                   IF s[i] = Sep THEN Append(acc, cur) ELSE acc)

\* strings.Split(s, "/")
SplitSep(s) == SplitFrom(s, 1, <<>>, <<>>)

RECURSIVE JoinSep(_)
JoinSep(segs) ==
    IF segs = <<>> THEN <<>>
    ELSE IF Len(segs) = 1 THEN segs[1]
    ELSE segs[1] \o <<Sep>> \o JoinSep(Tail(segs))

IsRooted(s) == Len(s) > 0 /\ s[1] = Sep

\* one element of the path handed to Clean: empty and "." elements are
\* dropped, ".." removes the element before it (or is kept at the start of a
\* relative path, and dropped at the root)
CleanStep(out, g, rooted) ==
    IF g = <<>> \/ g = Dot THEN out
    ELSE IF g = DotDot
    THEN IF Len(out) > 0 /\ out[Len(out)] # DotDot THEN SubSeq(out, 1, Len(out) - 1)
         ELSE IF rooted THEN out
         ELSE Append(out, g)
    ELSE Append(out, g)

RECURSIVE CleanSegs(_, _, _, _)
CleanSegs(segs, i, out, rooted) ==
    IF i > Len(segs) THEN out
    ELSE CleanSegs(segs, i + 1, CleanStep(out, segs[i], rooted), rooted)

\* filepath.Clean on a slash-separated platform
Clean(s) ==
    IF s = <<>> THEN Dot
    ELSE LET rooted == IsRooted(s)
             segs == CleanSegs(SplitSep(s), 1, <<>>, rooted)
         IN IF rooted THEN Root \o JoinSep(segs)
            ELSE IF segs = <<>> THEN Dot ELSE JoinSep(segs)

\* filepath.Join(a, b): empty elements are ignored, the rest is cleaned
Join(a, b) ==
    IF a = <<>> /\ b = <<>> THEN <<>>
    ELSE IF a = <<>> THEN Clean(b)
    ELSE IF b = <<>> THEN Clean(a)
    ELSE Clean(a \o <<Sep>> \o b)

\* working directory of the process, used by filepath.Abs for relative paths
Cwd == <<"/", "a">>

\* filepath.Abs
Abs(p) == IF IsRooted(p) THEN Clean(p) ELSE Join(Cwd, p)

\* the elements of a cleaned path, without the root
Elems(c) ==
    LET body == IF IsRooted(c) THEN SubSeq(c, 2, Len(c)) ELSE c
    IN IF body = <<>> THEN <<>> ELSE SplitSep(body)

RECURSIVE CommonLen(_, _, _)
CommonLen(b, t, k) ==
    IF k < Len(b) /\ k < Len(t) /\ b[k + 1] = t[k + 1]
    THEN CommonLen(b, t, k + 1) ELSE k

\* filepath.Rel once the common leading elements of base (be) and target
\* (te) are counted: ".." for each remaining element of the base, then the
\* rest of the target
RelFrom(be, te, k) ==
    IF k < Len(be) /\ be[k + 1] = DotDot
    THEN [ok |-> FALSE, path |-> <<>>]
    ELSE IF k < Len(be)
    THEN [ok |-> TRUE,
          path |-> JoinSep([i \in 1..(Len(be) - k) |-> DotDot]
                           \o SubSeq(te, k + 1, Len(te)))]
    ELSE [ok |-> TRUE, path |-> JoinSep(SubSeq(te, k + 1, Len(te)))]

RelElems(be, te) == RelFrom(be, te, CommonLen(be, te, 0))

\* filepath.Rel on the cleaned paths
RelCleaned(base0, targ) ==
    IF targ = base0 THEN [ok |-> TRUE, path |-> Dot]
    ELSE IF IsRooted(IF base0 = Dot THEN <<>> ELSE base0) # IsRooted(targ)
    THEN [ok |-> FALSE, path |-> <<>>]
    ELSE RelElems(Elems(IF base0 = Dot THEN <<>> ELSE base0), Elems(targ))

\* filepath.Rel: [ok, path]
Rel(basepath, targpath) == RelCleaned(Clean(basepath), Clean(targpath))

\* filepath.Base
RECURSIVE StripTrailingSep(_)
StripTrailingSep(s) ==
    IF Len(s) > 0 /\ s[Len(s)] = Sep THEN StripTrailingSep(SubSeq(s, 1, Len(s) - 1))
    ELSE s

Base(p) ==
    IF p = <<>> THEN Dot
    ELSE LET q == StripTrailingSep(p)
         IN IF q = <<>> THEN Root
            ELSE LET segs == SplitSep(q) IN segs[Len(segs)]

-----------------------------------------------------------------------------
(* repository.go: ValidatePath *)

NoErr == "none"
ErrTraversal == "path traversal detected"

\* a plausible slip: the parent-directory test is applied to the requested
\* path instead of the computed relative path
ValidatePathOnRequest(base, requested) ==
    LET rel == Rel(Abs(base), Abs(Join(Abs(base), requested)))
    IN IF ~rel.ok \/ HasPrefix(requested, DotDot)
       THEN [err |-> ErrTraversal, path |-> <<>>]
       ELSE [err |-> NoErr, path |-> rel.path]

\* ValidatePath after filepath.Rel(absBasePath, absTargetPath) returned rel
Validated(rel) ==
    IF ~rel.ok \/ HasPrefix(rel.path, DotDot)
    THEN [err |-> ErrTraversal, path |-> <<>>]
    ELSE [err |-> NoErr, path |-> rel.path]

\* ValidatePath: absBasePath is Abs(base), targetPath their Join,
\* absTargetPath its Abs
ValidatePath(base, requested) ==
    Validated(Rel(Abs(base), Abs(Join(Abs(base), requested))))

-----------------------------------------------------------------------------
(* main.go: shouldSkip *)

NodeModules == <<"n", "o", "d", "e", "_", "m", "o", "d", "u", "l", "e", "s">>

\* a plausible slip: the tests are applied to the path as given, not to its base name
shouldSkipWholePath(path) ==
    IF HasPrefix(path, Dot) THEN TRUE
    ELSE IF path = NodeModules THEN TRUE
    ELSE FALSE

shouldSkip(path) ==
    LET base == Base(path)
    IN IF HasPrefix(base, Dot) THEN TRUE
       ELSE IF base = NodeModules THEN TRUE
       ELSE FALSE

-----------------------------------------------------------------------------
(* main.go: handleReadFile on a repository whose FileSystem has base path   *)
(* basePath.  What the file system holds at the validated path is the       *)
(* environment's choice: statKind is what Stat reports, readOk whether      *)
(* ReadFile succeeds.                                                       *)

MaxSegs == 4

SegChoices == {<<"a">>, DotDot, Dot, <<".", ".", "a">>, <<".", "a">>, <<>>}

Bases == {Root, <<"/", "a">>, <<"/", "a", "/", "b">>, <<"b">>}

ReqPaths == {JoinSep(segs) : segs \in UNION {[1..n -> SegChoices] : n \in 0..MaxSegs}}

StatKinds == {"missing", "dir", "file"}

\* LocalFS.Stat / LocalFS.ReadFile address the file at Join(basePath, path)
LocalFullPath(base, path) == Join(base, path)

\* what handleReadFile answers once ValidatePath has returned v
ReadFileOutcome(v, statKind, readOk) ==
    IF v.err # NoErr THEN "traversal"
    ELSE IF statKind = "missing" THEN "not exist"
    ELSE IF statKind # "file" THEN "not a file"
    ELSE IF shouldSkip(v.path) THEN "denied"
    ELSE IF ~readOk THEN "read error"
    ELSE "content"

\* the calls handleReadFile makes on the FileSystem before it answers
ReadFileAccess(base, v, answer) ==
    IF answer = "traversal" THEN <<>>
    ELSE LET full == LocalFullPath(base, v.path)
         IN IF answer \in {"read error", "content"}
            THEN <<<<"Stat", full>>, <<"ReadFile", full>>>>
            ELSE <<<<"Stat", full>>>>

PathInit ==
    /\ vpc = "start"
    /\ vtool = "none"
    /\ basePath \in Bases
    /\ reqPath \in ReqPaths
    /\ vres = [err |-> NoErr, path |-> <<>>]
    /\ outcome = "none"
    /\ fsAccess = <<>>

PathIdle ==
    /\ vpc = "none"
    /\ vtool = "none"
    /\ basePath = <<>>
    /\ reqPath = <<>>
    /\ vres = [err |-> NoErr, path |-> <<>>]
    /\ outcome = "none"
    /\ fsAccess = <<>>

handleReadFile ==
    /\ vpc = "start"
    /\ vtool' = "read_file"
    /\ vres' = ValidatePath(basePath, reqPath)
    /\ \E statKind \in StatKinds, readOk \in BOOLEAN :
          outcome' = ReadFileOutcome(vres', statKind, readOk)
    /\ fsAccess' = ReadFileAccess(basePath, vres', outcome')
    /\ vpc' = "done"
    /\ UNCHANGED <<basePath, reqPath>>
    /\ UNCHANGED outsidePath

\* handleReadResourceTemplate for the URI repo://<repository>/<reqPath>, on a
\* repository whose FileSystem has base path basePath: an empty file part is
\* refused before ValidatePath, the rest is as in handleReadFile
handleReadResourceTemplate ==
    /\ vpc = "start"
    /\ vtool' = "repo://"
    /\ IF reqPath = <<>>
       THEN /\ vres' = vres
            /\ outcome' = "no file path"
            /\ fsAccess' = <<>>
       ELSE /\ vres' = ValidatePath(basePath, reqPath)
            /\ \E statKind \in StatKinds, readOk \in BOOLEAN :
                  outcome' = ReadFileOutcome(vres', statKind, readOk)
            /\ fsAccess' = ReadFileAccess(basePath, vres', outcome')
    /\ vpc' = "done"
    /\ UNCHANGED <<basePath, reqPath>>
    /\ UNCHANGED outsidePath

\* what handleListFiles answers once ValidatePath has returned v
ListFilesOutcome(v, statKind, listOk) ==
    IF v.err # NoErr THEN "traversal"
    ELSE IF statKind = "missing" THEN "not exist"
    ELSE IF statKind # "dir" THEN "not a directory"
    ELSE IF ~listOk THEN "list error"
    ELSE "listing"

\* a plausible slip: the directory is looked up under the path as given,
\* whatever ValidatePath said
ListFilesAccessAsGiven(base, requested, v, answer, recursive) ==
    LET full == LocalFullPath(base, requested)
    IN IF answer \in {"list error", "listing"}
       THEN <<<<"Stat", full>>, <<IF recursive THEN "Walk" ELSE "ReadDir", full>>>>
       ELSE <<<<"Stat", full>>>>

\* the calls handleListFiles makes on the FileSystem before it answers
ListFilesAccess(base, requested, v, answer, recursive) ==
    IF answer = "traversal" THEN <<>>
    ELSE LET full == LocalFullPath(base, v.path)
         IN IF answer \in {"list error", "listing"}
            THEN <<<<"Stat", full>>, <<IF recursive THEN "Walk" ELSE "ReadDir", full>>>>
            ELSE <<<<"Stat", full>>>>

\* handleListFiles on a repository whose FileSystem has base path basePath
handleListFilesAt ==
    /\ vpc = "start"
    /\ vtool' = "list_files"
    /\ vres' = ValidatePath(basePath, reqPath)
    /\ \E statKind \in StatKinds, listOk \in BOOLEAN, recursive \in BOOLEAN :
          /\ outcome' = ListFilesOutcome(vres', statKind, listOk)
          /\ fsAccess' = ListFilesAccess(basePath, reqPath, vres', outcome', recursive)
    /\ vpc' = "done"
    /\ UNCHANGED <<basePath, reqPath>>
    /\ UNCHANGED outsidePath

PathNext == handleReadFile \/ handleReadResourceTemplate \/ handleListFilesAt

-----------------------------------------------------------------------------
(* Path containment, stated on path elements independently of Rel *)

\* the cleaned absolute target of the request lies in the base directory
StaysWithin(base, requested) ==
    IsPrefixSeq(Elems(Abs(base)), Elems(Abs(Join(Abs(base), requested))))

\* the cleaned path of the target relative to the base, by elements
CleanedRelative(base, requested) ==
    LET be == Elems(Abs(base))
        te == Elems(Abs(Join(Abs(base), requested)))
    IN IF Len(te) = Len(be) THEN Dot
       ELSE JoinSep(SubSeq(te, Len(be) + 1, Len(te)))

\* C1: a request whose joined and cleaned target lies outside the base
\* directory gets a path-traversal error and no path from ValidatePath, and
\* read_file rejects it without any access to the file system.
C1_EscapeRejected ==
    (vpc = "done" /\ ~StaysWithin(basePath, reqPath)) =>
        /\ vres.err = ErrTraversal
        /\ vres.path = <<>>
        /\ outcome = "traversal"
        /\ fsAccess = <<>>

\* a/../../a against base /a/b (the shape of src/../../etc) was rejected
C1_Witness ==
    /\ vpc = "done"
    /\ basePath = <<"/", "a", "/", "b">>
    /\ reqPath = <<"a", "/", ".", ".", "/", ".", ".", "/", "a">>
    /\ ~StaysWithin(basePath, reqPath)
    /\ outcome = "traversal"

\* C2: a request that stays within the base directory never fails in
\* ValidatePath and gets the cleaned path relative to the base.
C2_WithinAccepted ==
    (vpc = "done" /\ outcome # "no file path" /\ StaysWithin(basePath, reqPath)) =>
        /\ vres.err = NoErr
        /\ vres.path = CleanedRelative(basePath, reqPath)

\* a path element that the tree filter excludes: a hidden name or node_modules
Excluded(e) == HasPrefix(e, Dot) \/ e = NodeModules

\* C11: read_file and the repo:// resource read return contents only for a
\* file none of whose path elements below the repository root is hidden or
\* node_modules; a file inside a hidden directory is denied like a hidden file.
C11_NoContentFromExcludedPath ==
    (vpc = "done" /\ outcome = "content") =>
        \A i \in 1..Len(Elems(vres.path)) : ~Excluded(Elems(vres.path)[i])

\* the path every FileSystem call of a request for requested must carry: the
\* one a successful ValidatePath against the base path returned
ValidatedTarget(base, requested) ==
    LocalFullPath(base, ValidatePath(base, requested).path)

\* C36: every Stat, ReadDir, ReadFile or Walk that list_files, read_file or
\* the resource read performs carries the path a successful ValidatePath
\* against the file system's base path returned for this request, and a
\* request whose validation fails performs no access at all.
C36_OnlyValidatedPathsAccessed ==
    vpc = "done" =>
        /\ ValidatePath(basePath, reqPath).err # NoErr => fsAccess = <<>>
        /\ \A i \in 1..Len(fsAccess) :
              /\ fsAccess[i][1] \in {"Stat", "ReadDir", "ReadFile", "Walk"}
              /\ ValidatePath(basePath, reqPath).err = NoErr
              /\ vres = ValidatePath(basePath, reqPath)
              /\ fsAccess[i][2] = ValidatedTarget(basePath, reqPath)

\* list_files of a/./a under /a/b walked the validated a/a, not the path as given
C36_Witness ==
    /\ vpc = "done"
    /\ vtool = "list_files"
    /\ basePath = <<"/", "a", "/", "b">>
    /\ reqPath = <<"a", "/", ".", "/", "a">>
    /\ vres = [err |-> NoErr, path |-> <<"a", "/", "a">>]
    /\ fsAccess = <<<<"Stat", <<"/", "a", "/", "b", "/", "a", "/", "a">>>>,
                    <<"Walk", <<"/", "a", "/", "b", "/", "a", "/", "a">>>>>>

-----------------------------------------------------------------------------
(* ssh.go: the connection pool *)

\* decimal digits of a natural number, as %d prints them
DigitChar(d) ==
    CASE d = 0 -> "0" [] d = 1 -> "1" [] d = 2 -> "2" [] d = 3 -> "3" [] d = 4 -> "4"
      [] d = 5 -> "5" [] d = 6 -> "6" [] d = 7 -> "7" [] d = 8 -> "8" [] d = 9 -> "9"

RECURSIVE Digits(_)
Digits(n) == IF n < 10 THEN <<DigitChar(n)>> ELSE Digits(n \div 10) \o <<DigitChar(n % 10)>>

\* a plausible slip: the repository's path becomes part of the key
connectionKeyWithPath(repo) ==
    repo.user \o <<"@">> \o repo.host \o <<":">> \o Digits(repo.port) \o repo.path

\* fmt.Sprintf("%s@%s:%d", repo.User, repo.Host, repo.Port)
connectionKey(repo) ==
    repo.user \o <<"@">> \o repo.host \o <<":">> \o Digits(repo.port)

\* the ssh repository descriptors requests are made for: the first two share
\* user, host and port and differ in path and key file
PoolRepos ==
    { [user |-> <<"u">>, host |-> <<"h">>, port |-> 22, path |-> <<"/", "p">>, key |-> <<"k">>],
      [user |-> <<"u">>, host |-> <<"h">>, port |-> 22, path |-> <<"/", "q">>, key |-> <<"j">>],
      [user |-> <<"u">>, host |-> <<"g">>, port |-> 2222, path |-> <<"/", "p">>, key |-> <<"k">>] }

SameTriple(r1, r2) == r1.user = r2.user /\ r1.host = r2.host /\ r1.port = r2.port

Callers == {"h1", "h2"}

MaxCalls == 3

NoRepo == [user |-> <<>>, host |-> <<>>, port |-> 0, path |-> <<>>, key |-> <<>>]

NoRet == [conn |-> 0, err |-> "pending"]

SessIds == 1..Len(sess)

NoLock == "none"

\* Go map operations: m[k] = v and delete(m, k)
MapPut(m, k, v) == [x \in DOMAIN m \cup {k} |-> IF x = k THEN v ELSE m[x]]
MapDelete(m, k) == [x \in DOMAIN m \ {k} |-> m[x]]

\* sync.RWMutex: RLock waits for the writer, Lock waits for writer and readers
CanRLock(mu) == mu.w = NoLock
CanLock(mu) == mu.w = NoLock /\ mu.r = {}

\* a plausible slip: the read lock is kept until getConnection returns
RUnlockDeferred(mu, t) == mu

\* p.mu.RUnlock() by t
RUnlock(mu, t) == [mu EXCEPT !.r = @ \ {t}]

\* the keepalive request succeeds on a transport that is open at both ends
ProbeOk(c) == c.client = "open" /\ c.alive

\* a plausible slip: the transport is left open when the SFTP client fails
SftpFailedLeaveOpen(c) == c

\* connect: sftp.NewClient failed, client.Close() before the error is returned
SftpFailed(c) == [c EXCEPT !.client = "closed"]

\* Close: conn.sftp.Close() then conn.client.Close()
CloseConn(c) == [c EXCEPT !.sftp = "closed", !.client = "closed"]

PoolInit ==
    /\ conns = <<>>
    /\ pmu = [w |-> NoLock, r |-> {}]
    /\ sess = <<>>
    /\ tpc = [t \in Callers |-> "idle"]
    /\ trepo = [t \in Callers |-> NoRepo]
    /\ tconn = [t \in Callers |-> 0]
    /\ tprobed = [t \in Callers |-> 0]
    /\ tdials = [t \in Callers |-> 0]
    /\ tret = [t \in Callers |-> NoRet]
    /\ calls = 0
    /\ cpc = "running"

PoolIdle ==
    /\ conns = <<>>
    /\ pmu = [w |-> NoLock, r |-> {}]
    /\ sess = <<>>
    /\ tpc = <<>>
    /\ trepo = <<>>
    /\ tconn = <<>>
    /\ tprobed = <<>>
    /\ tdials = <<>>
    /\ tret = <<>>
    /\ calls = 0
    /\ cpc = "none"

\* getConnection is entered with a repository by a caller that is not inside
\* a call; key := connectionKey(repo)
GetConnectionEnter(t) ==
    /\ tpc[t] \in {"idle", "returned"}
    /\ cpc # "exited"
    /\ calls < MaxCalls
    /\ calls' = calls + 1
    /\ \E r \in PoolRepos : trepo' = [trepo EXCEPT ![t] = r]
    /\ tpc' = [tpc EXCEPT ![t] = "rlock"]
    /\ tconn' = [tconn EXCEPT ![t] = 0]
    /\ tprobed' = [tprobed EXCEPT ![t] = 0]
    /\ tdials' = [tdials EXCEPT ![t] = 0]
    /\ tret' = [tret EXCEPT ![t] = NoRet]
    /\ UNCHANGED <<conns, pmu, sess, cpc>>
    /\ UNCHANGED outsidePool

\* p.mu.RLock()
LookupRLock(t) ==
    /\ tpc[t] = "rlock"
    /\ CanRLock(pmu)
    /\ pmu' = [pmu EXCEPT !.r = @ \cup {t}]
    /\ tpc' = [tpc EXCEPT ![t] = "rlocked"]
    /\ UNCHANGED <<conns, sess, trepo, tconn, tprobed, tdials, tret, calls, cpc>>
    /\ UNCHANGED outsidePool

\* conn, ok := p.conns[key]; p.mu.RUnlock(); if ok ...
Lookup(t) ==
    /\ tpc[t] = "rlocked"
    /\ LET key == connectionKey(trepo[t])
           c == IF key \in DOMAIN conns THEN conns[key] ELSE 0
       IN /\ tconn' = [tconn EXCEPT ![t] = c]
          /\ tpc' = [tpc EXCEPT ![t] = IF c # 0 THEN "probe" ELSE "dial"]
    /\ pmu' = RUnlock(pmu, t)
    /\ UNCHANGED <<conns, sess, trepo, tprobed, tdials, tret, calls, cpc>>
    /\ UNCHANGED outsidePool

\* conn.client.SendRequest("keepalive@openssh.com", true, nil)
Probe(t) ==
    /\ tpc[t] = "probe"
    /\ IF ProbeOk(sess[tconn[t]])
       THEN /\ tret' = [tret EXCEPT ![t] = [conn |-> tconn[t], err |-> NoErr]]
            /\ tpc' = [tpc EXCEPT ![t] = "returned"]
            /\ UNCHANGED <<tprobed, sess>>
       ELSE /\ tprobed' = [tprobed EXCEPT ![t] = tconn[t]]
            /\ tpc' = [tpc EXCEPT ![t] = "evlock"]
            /\ UNCHANGED <<tret, sess>>
    /\ UNCHANGED <<conns, pmu, trepo, tconn, tdials, calls, cpc>>
    /\ UNCHANGED outsidePool

\* p.mu.Lock() before the delete
EvictLock(t) ==
    /\ tpc[t] = "evlock"
    /\ CanLock(pmu)
    /\ pmu' = [pmu EXCEPT !.w = t]
    /\ tpc' = [tpc EXCEPT ![t] = "evlocked"]
    /\ UNCHANGED <<conns, sess, trepo, tconn, tprobed, tdials, tret, calls, cpc>>
    /\ UNCHANGED outsidePool

\* delete(p.conns, key); p.mu.Unlock()
Evict(t) ==
    /\ tpc[t] = "evlocked"
    /\ conns' = MapDelete(conns, connectionKey(trepo[t]))
    /\ pmu' = [pmu EXCEPT !.w = NoLock]
    /\ tpc' = [tpc EXCEPT ![t] = "dial"]
    /\ UNCHANGED <<sess, trepo, tconn, tprobed, tdials, tret, calls, cpc>>
    /\ UNCHANGED outsidePool

DialErrors == {"failed to read SSH key", "failed to parse SSH key", "failed to connect"}

\* a plausible slip: connect is tried again after an error
AfterDialErrorRetry(e) == "dial"

\* getConnection: if err != nil { return nil, err } after p.connect(repo)
AfterDialError(e) == "returned"

ErrSftp == "failed to create SFTP client"

\* connect, up to ssh.Dial: the key file is read and parsed, then the
\* transport is dialed; any of the three can fail
ConnectDial(t) ==
    /\ tpc[t] = "dial"
    /\ \/ \E e \in DialErrors :
             /\ tret' = [tret EXCEPT ![t] = [conn |-> 0, err |-> e]]
             /\ tdials' = [tdials EXCEPT ![t] = IF e = "failed to connect" THEN @ + 1 ELSE @]
             /\ tpc' = [tpc EXCEPT ![t] = AfterDialError(e)]
             /\ UNCHANGED <<sess, tconn>>
       \/ /\ sess' = Append(sess, [key |-> connectionKey(trepo[t]),
                                   repo |-> trepo[t],
                                   client |-> "open",
                                   sftp |-> "none",
                                   alive |-> TRUE])
          /\ tconn' = [tconn EXCEPT ![t] = Len(sess) + 1]
          /\ tdials' = [tdials EXCEPT ![t] = @ + 1]
          /\ tpc' = [tpc EXCEPT ![t] = "sftp"]
          /\ UNCHANGED tret
    /\ UNCHANGED <<conns, pmu, trepo, tprobed, calls, cpc>>
    /\ UNCHANGED outsidePool

\* connect, sftp.NewClient(client) and the return to getConnection
ConnectSftp(t) ==
    /\ tpc[t] = "sftp"
    /\ \/ /\ sess' = [sess EXCEPT ![tconn[t]] = SftpFailed(@)]
          /\ tret' = [tret EXCEPT ![t] = [conn |-> 0, err |-> ErrSftp]]
          /\ tpc' = [tpc EXCEPT ![t] = "returned"]
       \/ /\ sess' = [sess EXCEPT ![tconn[t]].sftp = "open"]
          /\ tpc' = [tpc EXCEPT ![t] = "inslock"]
          /\ UNCHANGED tret
    /\ UNCHANGED <<conns, pmu, trepo, tconn, tprobed, tdials, calls, cpc>>
    /\ UNCHANGED outsidePool

\* p.mu.Lock() before the insert
InsertLock(t) ==
    /\ tpc[t] = "inslock"
    /\ CanLock(pmu)
    /\ pmu' = [pmu EXCEPT !.w = t]
    /\ tpc' = [tpc EXCEPT ![t] = "inslocked"]
    /\ UNCHANGED <<conns, sess, trepo, tconn, tprobed, tdials, tret, calls, cpc>>
    /\ UNCHANGED outsidePool

\* p.conns[key] = conn; p.mu.Unlock(); return conn, nil
Insert(t) ==
    /\ tpc[t] = "inslocked"
    /\ conns' = MapPut(conns, connectionKey(trepo[t]), tconn[t])
    /\ pmu' = [pmu EXCEPT !.w = NoLock]
    /\ tret' = [tret EXCEPT ![t] = [conn |-> tconn[t], err |-> NoErr]]
    /\ tpc' = [tpc EXCEPT ![t] = "returned"]
    /\ UNCHANGED <<sess, trepo, tconn, tprobed, tdials, calls, cpc>>
    /\ UNCHANGED outsidePool

\* the remote host closes a session
RemoteDrop ==
    /\ \E c \in SessIds :
          /\ sess[c].alive
          /\ sess[c].client = "open"
          /\ sess[c].sftp = "open"
          /\ sess' = [sess EXCEPT ![c].alive = FALSE]
    /\ UNCHANGED <<conns, pmu, tpc, trepo, tconn, tprobed, tdials, tret, calls, cpc>>
    /\ UNCHANGED outsidePool

\* Close: p.mu.Lock()
CloseLock ==
    /\ cpc = "running"
    /\ CanLock(pmu)
    /\ pmu' = [pmu EXCEPT !.w = "closer"]
    /\ cpc' = "closing"
    /\ UNCHANGED <<conns, sess, tpc, trepo, tconn, tprobed, tdials, tret, calls>>
    /\ UNCHANGED outsidePool

\* Close: every connection in p.conns is closed, p.conns becomes a new empty
\* map, the deferred Unlock runs
CloseAll ==
    /\ cpc = "closing"
    /\ sess' = [c \in SessIds |->
                  IF \E k \in DOMAIN conns : conns[k] = c THEN CloseConn(sess[c]) ELSE sess[c]]
    /\ conns' = <<>>
    /\ pmu' = [pmu EXCEPT !.w = NoLock]
    /\ cpc' = "closed"
    /\ UNCHANGED <<tpc, trepo, tconn, tprobed, tdials, tret, calls>>
    /\ UNCHANGED outsidePool

\* main: server.ServeStdio returned an error while no request is being
\* served, and log.Fatalf ends the process with os.Exit(1), which runs no
\* deferred call: sshPool.Close() is not called
ServeFatal ==
    /\ cpc = "running"
    /\ \A t \in Callers : tpc[t] \in {"idle", "returned"}
    /\ cpc' = "exited"
    /\ UNCHANGED <<conns, pmu, sess, tpc, trepo, tconn, tprobed, tdials, tret, calls>>
    /\ UNCHANGED outsidePool

PoolNext ==
    \/ \E t \in Callers : GetConnectionEnter(t)
    \/ \E t \in Callers : LookupRLock(t)
    \/ \E t \in Callers : Lookup(t)
    \/ \E t \in Callers : Probe(t)
    \/ \E t \in Callers : EvictLock(t)
    \/ \E t \in Callers : Evict(t)
    \/ \E t \in Callers : ConnectDial(t)
    \/ \E t \in Callers : ConnectSftp(t)
    \/ \E t \in Callers : InsertLock(t)
    \/ \E t \in Callers : Insert(t)
    \/ RemoteDrop
    \/ CloseLock
    \/ CloseAll
    \/ ServeFatal

-----------------------------------------------------------------------------
(* Properties of the connection pool *)

Pooled(c) == \E k \in DOMAIN conns : conns[k] = c

\* both the transport and the SFTP sub-session of c are open on this side
Open(c) == sess[c].client = "open" /\ sess[c].sftp = "open"

Closed(c) == sess[c].client = "closed" /\ sess[c].sftp = "closed"

\* c has been inserted into the pool at some time: its SFTP sub-session was
\* created and its creator is no longer on the way to the insert
EverPooled(c) ==
    /\ sess[c].sftp # "none"
    /\ ~\E t \in Callers : tconn[t] = c /\ tpc[t] \in {"inslock", "inslocked"}

\* the caller holds a fully established session it dialed in this call
HoldsFresh(t) ==
    /\ tpc[t] \in {"inslock", "inslocked", "returned"}
    /\ tdials[t] > 0
    /\ tconn[t] # 0
    /\ sess[tconn[t]].sftp # "none"

\* C3: there is at most one live (dialed and not closed) SSH+SFTP session per
\* connection key, under any interleaving of getConnection calls.
C3_OneLiveSessionPerKey ==
    \A c1, c2 \in SessIds :
        (Open(c1) /\ Open(c2) /\ sess[c1].key = sess[c2].key) => c1 = c2

\* C6: after the pooled connection of a key failed its probe, the requests
\* that follow create exactly one replacement session for it.
C6_OneReplacementPerFailedProbe ==
    \A t1, t2 \in Callers :
        (/\ tprobed[t1] # 0
         /\ tprobed[t1] = tprobed[t2]
         /\ HoldsFresh(t1)
         /\ HoldsFresh(t2)) => t1 = t2

\* C7: once a caller's probe of a pooled connection has failed and the caller
\* goes on to create the replacement, that connection is closed (SFTP
\* sub-session and transport) and is no longer in the pool.
C7_FailedProbeTornDown ==
    \A t \in Callers :
        (tprobed[t] # 0 /\ tpc[t] \in {"dial", "sftp", "inslock", "inslocked", "returned"}) =>
            /\ Closed(tprobed[t])
            /\ ~Pooled(tprobed[t])

\* the sessions in the pool that were dialed for a descriptor with the user,
\* host and port of r
SharedPooled(r) == {c \in SessIds : Pooled(c) /\ SameTriple(sess[c].repo, r)}

\* C8: descriptors with the same user, host and port share one pooled
\* connection: the lookup of a caller finds the session pooled for any such
\* descriptor, and when its probe succeeds the call returns that session
\* without dialing.
C8_SameTripleSharesConnection ==
    [][\A t \in Callers :
          /\ (tpc[t] = "rlocked" /\ tpc'[t] # "rlocked" /\ SharedPooled(trepo[t]) # {}) =>
                (tpc'[t] = "probe" /\ tconn'[t] \in SharedPooled(trepo[t]))
          /\ (tpc[t] = "probe" /\ tpc'[t] # "probe" /\ ProbeOk(sess[tconn[t]])) =>
                /\ tpc'[t] = "returned"
                /\ tret'[t] = [conn |-> tconn[t], err |-> NoErr]
                /\ tdials'[t] = 0
                /\ sess' = sess]_vars

\* a caller got, without dialing, the session that was dialed for another
\* descriptor with the same user, host and port
C8_Witness ==
    \E t \in Callers :
        /\ tpc[t] = "returned"
        /\ tret[t].err = NoErr
        /\ tdials[t] = 0
        /\ sess[tret[t].conn].repo # trepo[t]
        /\ SameTriple(sess[tret[t].conn].repo, trepo[t])

\* C9: when Close returns, the pool map is empty and every connection that
\* was ever in the pool has its SFTP sub-session and its transport closed.
C9_CloseLeavesNothingOpen ==
    [][(cpc = "closing" /\ cpc' = "closed") =>
          (/\ conns = <<>>
           /\ \A c \in SessIds : EverPooled(c) => Closed(c))']_vars

\* C10: a transport whose SFTP sub-session could not be created is closed
\* before connect returns the error; it is never put into the pool and no
\* session without SFTP sub-session stays open outside a running connect.
C10_NoHalfOpenSession ==
    /\ \A c \in SessIds :
          sess[c].sftp = "none" =>
             /\ ~Pooled(c)
             /\ sess[c].client = "open" => \E t \in Callers : tpc[t] = "sftp" /\ tconn[t] = c
    /\ \A t \in Callers :
          (tpc[t] = "returned" /\ tret[t].err = ErrSftp) =>
             /\ tret[t].conn = 0
             /\ sess[tconn[t]].client = "closed"
             /\ ~Pooled(tconn[t])

\* a call ended with the SFTP error and left its transport closed
C10_Witness ==
    \E t \in Callers :
        /\ tpc[t] = "returned"
        /\ tret[t].err = ErrSftp
        /\ sess[tconn[t]].sftp = "none"
        /\ sess[tconn[t]].client = "closed"

\* C27: a caller of getConnection holds the pool lock, for reading or for
\* writing, at none of its positions in the keepalive probe or in connect;
\* the lock is held only by callers between a lock operation and the map
\* access it guards and by Close, so a caller that stays in a probe or a dial
\* keeps no other caller and not Close from the lock.
C27_NoLockWhileProbingOrDialing ==
    /\ \A t \in Callers :
          tpc[t] \in {"probe", "dial", "sftp"} => (t \notin pmu.r /\ pmu.w # t)
    /\ \A t \in pmu.r : tpc[t] = "rlocked"
    /\ pmu.w \in Callers => tpc[pmu.w] \in {"evlocked", "inslocked"}
    /\ pmu.w \notin Callers => (pmu.w = NoLock \/ cpc = "closing")

\* while one caller is in the probe of its pooled connection, another caller
\* holds the write lock to insert the connection it dialed for another key
C27_Witness ==
    \E t \in Callers, u \in Callers :
        /\ tpc[t] = "probe"
        /\ tpc[u] = "inslocked"
        /\ connectionKey(trepo[t]) # connectionKey(trepo[u])
        /\ pmu.w = u

\* C26: when the process has ended after a server error, every connection
\* of the pool has been closed.
C26_ClosedAtExit ==
    cpc = "exited" => \A c \in SessIds : Pooled(c) => Closed(c)

\* C31: a call of getConnection dials at most once; it returns an error only
\* out of connect, and the error is one of connect's four (key read, key
\* parse, transport dial, SFTP setup); a probe ends either in the return of
\* the probed connection without error or in the eviction that precedes the
\* one dial, never in an error.
C31_OneDialPerCall ==
    [][\A t \in Callers :
          /\ tdials'[t] <= 1
          /\ (tpc[t] # "returned" /\ tpc'[t] = "returned" /\ tret'[t].err # NoErr) =>
                /\ tpc[t] \in {"dial", "sftp"}
                /\ tret'[t].err \in DialErrors \cup {ErrSftp}
                /\ tret'[t].conn = 0
          /\ (tpc[t] = "probe" /\ tpc'[t] # "probe") =>
                \/ tpc'[t] = "returned" /\ tret'[t].err = NoErr
                \/ tpc'[t] = "evlock" /\ tret'[t] = NoRet]_vars

\* a call whose probe failed returned, without error, the session of its one
\* dial
C31_Witness ==
    \E t \in Callers :
        /\ tpc[t] = "returned"
        /\ tprobed[t] # 0
        /\ tdials[t] = 1
        /\ tret[t] = [conn |-> tconn[t], err |-> NoErr]
        /\ tconn[t] # tprobed[t]

\* C32: the eviction by a caller whose probe failed removes from the pool
\* nothing but the connection that failed that probe.
C32_EvictsOnlyTheProbed ==
    [][\A t \in Callers :
          (tpc[t] = "evlocked" /\ tpc'[t] = "dial") =>
              \A k \in DOMAIN conns :
                  (k \notin DOMAIN conns' \/ conns'[k] # conns[k]) => conns[k] = tprobed[t]]_vars

\* C35: when a call of getConnection returns the error of its dial, the
\* pool has no entry for the key of the call and the entries of the other
\* keys are as they were when connect was entered.
C35_DialFailureLeavesNoEntry ==
    [][\A t \in Callers :
          (tpc[t] \in {"dial", "sftp"} /\ tpc'[t] = "returned" /\ tret'[t].err # NoErr) =>
              /\ connectionKey(trepo[t]) \notin DOMAIN conns'
              /\ \A k \in DOMAIN conns \ {connectionKey(trepo[t])} :
                    k \in DOMAIN conns' /\ conns'[k] = conns[k]]_vars

-----------------------------------------------------------------------------
(* repository.go: ParseRepository; main.go: the configuration document *)

\* os.UserHomeDir()
UserHomeDir == [ok |-> TRUE, dir |-> <<"/", "h">>]

DefaultKeyFile == <<"~", "/", ".", "s", "s", "h", "/", "i", "d", "_", "r", "s", "a">>

DefaultPort == 22

NoRepository == [type |-> "", path |-> <<>>, host |-> <<>>, port |-> 0, user |-> <<>>, key |-> <<>>]

\* A raw repository value of the document.  shape is "string" for a JSON
\* string (str holds it), "object" for a JSON object that unmarshals into
\* Repository (absent fields are the zero values) and "other" for any value
\* json.Unmarshal rejects for both.
RawString(str) == [shape |-> "string", str |-> str, obj |-> NoRepository]
RawObject(obj) == [shape |-> "object", str |-> <<>>, obj |-> obj]
RawOther == [shape |-> "other", str |-> <<>>, obj |-> NoRepository]

ExpandKeyFile(r) ==
    IF r.key # <<>> /\ HasPrefix(r.key, <<"~">>) /\ UserHomeDir.ok
    THEN [r EXCEPT !.key = Join(UserHomeDir.dir, SubSeq(r.key, 2, Len(r.key)))]
    ELSE r

WithDefaults(r) ==
    LET r1 == IF r.type = "" THEN [r EXCEPT !.type = "local"] ELSE r
        r2 == IF r1.type = "ssh" /\ r1.port = 0 THEN [r1 EXCEPT !.port = DefaultPort] ELSE r1
        r3 == IF r2.type = "ssh" /\ r2.key = <<>> THEN [r2 EXCEPT !.key = DefaultKeyFile] ELSE r2
    IN ExpandKeyFile(r3)

\* a plausible slip: the check of 'path' is left out of the ssh validation
ParseRepositoryNoPathCheck(name, raw) ==
    IF raw.shape = "string"
    THEN [err |-> NoErr, name |-> name, repo |-> [NoRepository EXCEPT !.type = "local", !.path = raw.str]]
    ELSE IF raw.shape # "object"
    THEN [err |-> "failed to parse repository", name |-> name, repo |-> NoRepository]
    ELSE LET repo == WithDefaults(raw.obj)
         IN IF repo.type = "ssh" /\ repo.host = <<>>
            THEN [err |-> "SSH repo requires 'host'", name |-> name, repo |-> NoRepository]
            ELSE IF repo.type = "ssh" /\ repo.user = <<>>
            THEN [err |-> "SSH repo requires 'user'", name |-> name, repo |-> NoRepository]
            ELSE [err |-> NoErr, name |-> name, repo |-> repo]

\* ParseRepository(name, raw): [err, name, repo]
ParseRepository(name, raw) ==
    IF raw.shape = "string"
    THEN [err |-> NoErr, name |-> name, repo |-> [NoRepository EXCEPT !.type = "local", !.path = raw.str]]
    ELSE IF raw.shape # "object"
    THEN [err |-> "failed to parse repository", name |-> name, repo |-> NoRepository]
    ELSE LET repo == WithDefaults(raw.obj)
         IN IF repo.type = "ssh" /\ repo.host = <<>>
            THEN [err |-> "SSH repo requires 'host'", name |-> name, repo |-> NoRepository]
            ELSE IF repo.type = "ssh" /\ repo.user = <<>>
            THEN [err |-> "SSH repo requires 'user'", name |-> name, repo |-> NoRepository]
            ELSE IF repo.type = "ssh" /\ repo.path = <<>>
            THEN [err |-> "SSH repo requires 'path'", name |-> name, repo |-> NoRepository]
            ELSE [err |-> NoErr, name |-> name, repo |-> repo]

\* a plausible slip: an entry that fails to parse is skipped and the rest of
\* the document is published
LoadDocumentSkippingBad(doc) ==
    IF doc.kind = "missing"
    THEN {[err |-> "failed to read config file", name |-> "", repos |-> <<>>]}
    ELSE IF doc.kind = "garbage"
    THEN {[err |-> "failed to parse config file", name |-> "", repos |-> <<>>]}
    ELSE LET good == {n \in DOMAIN doc.repositories :
                         ParseRepository(n, doc.repositories[n]).err = NoErr}
         IN {[err |-> NoErr, name |-> "",
              repos |-> [n \in good |-> ParseRepository(n, doc.repositories[n]).repo]]}

\* reloadConfig from os.ReadFile to the end of the parsing loop, on the
\* document found in the file: the possible values of (err, newRepos), with
\* the repository name the error message carries.  The
\* loop returns at the first entry that fails; which one that is depends on
\* the order the map is ranged in.
LoadDocument(doc) ==
    IF doc.kind = "missing"
    THEN {[err |-> "failed to read config file", name |-> "", repos |-> <<>>]}
    ELSE IF doc.kind = "garbage"
    THEN {[err |-> "failed to parse config file", name |-> "", repos |-> <<>>]}
    ELSE LET bad == {n \in DOMAIN doc.repositories :
                        ParseRepository(n, doc.repositories[n]).err # NoErr}
         IN IF bad # {}
            THEN {[err |-> ParseRepository(n, doc.repositories[n]).err,
                   name |-> ParseRepository(n, doc.repositories[n]).name,
                   repos |-> <<>>] : n \in bad}
            ELSE {[err |-> NoErr, name |-> "",
                   repos |-> [n \in DOMAIN doc.repositories |->
                                 ParseRepository(n, doc.repositories[n]).repo]]}

-----------------------------------------------------------------------------
(* The configuration documents the file takes in the model *)

SshSvc == [type |-> "ssh", path |-> <<"/", "p">>, host |-> <<"h">>, port |-> 0,
           user |-> <<"u">>, key |-> <<>>]

JsonDoc(m) == [kind |-> "json", repositories |-> m]

DocDocs == JsonDoc([n \in {"docs"} |-> RawString(<<"/", "r">>)])

DocBoth == JsonDoc([n \in {"docs", "svc"} |->
                      IF n = "docs" THEN RawString(<<"/", "r">>) ELSE RawObject(SshSvc)])

\* a changed entry next to an ssh entry without host and an entry that is
\* neither a string nor an object
DocPartlyBad == JsonDoc([n \in {"docs", "svc", "lib"} |->
                      IF n = "svc" THEN RawObject([SshSvc EXCEPT !.host = <<>>])
                      ELSE IF n = "lib" THEN RawOther
                      ELSE RawString(<<"/", "s">>)])

DocGarbage == [kind |-> "garbage", repositories |-> <<>>]

DocMissing == [kind |-> "missing", repositories |-> <<>>]

ConfigDocs == {DocDocs, DocBoth, DocPartlyBad, DocGarbage, DocMissing}

\* main: loadConfig succeeded and the map it published is not empty
StartDocs == {d \in ConfigDocs :
                 \E r \in LoadDocument(d) : r.err = NoErr /\ DOMAIN r.repos # {}}

RepoNames == {"docs", "svc"}

\* fsnotify operations of one event
EventOps == {{"Write"}, {"Create"}, {"Remove"}, {"Rename"}, {"Chmod"}}

MaxEvents == 1

Handlers == {"q1", "q2"}

NoRes == [kind |-> "none"]

-----------------------------------------------------------------------------
(* main.go: registry, watcher and the handlers that read the registry *)

RegInit ==
    /\ configFile \in StartDocs
    /\ \E r \in LoadDocument(configFile) : r.err = NoErr /\ repos = r.repos
    /\ reposMux = [w |-> NoLock, r |-> {}]
    /\ events = <<>>
    /\ watched = TRUE
    /\ wpc = "select"
    /\ wev = {}
    /\ wphase = 0
    /\ wnew = <<>>
    /\ wdoc = DocMissing
    /\ wbefore = <<>>
    /\ rpc = [h \in Handlers |-> "idle"]
    /\ rname = [h \in Handlers |-> ""]
    /\ rres = [h \in Handlers |-> NoRes]
    /\ rsnap = [h \in Handlers |-> <<>>]

RegIdle ==
    /\ configFile = DocMissing
    /\ repos = <<>>
    /\ reposMux = [w |-> NoLock, r |-> {}]
    /\ events = <<>>
    /\ watched = FALSE
    /\ wpc = "none"
    /\ wev = {}
    /\ wphase = 0
    /\ wnew = <<>>
    /\ wdoc = DocMissing
    /\ wbefore = <<>>
    /\ rpc = <<>>
    /\ rname = <<>>
    /\ rres = <<>>
    /\ rsnap = <<>>

\* a plausible slip: only a write counts as a save
IsSaveWriteOnly(ops) == "Write" \in ops

IsSave(ops) == ops \cap {"Write", "Create"} # {}
IsReplace(ops) == ops \cap {"Remove", "Rename"} # {}

\* the watched configuration file is written, replaced or removed and the
\* watcher's event channel gets the event; the file is gone afterwards only
\* when it was removed or renamed, and a remove or rename ends the watch,
\* which was on the file that is no longer at configPath
FileEvent ==
    /\ watched
    /\ Len(events) < MaxEvents
    /\ \E d \in ConfigDocs, ops \in EventOps :
          /\ d = DocMissing => IsReplace(ops)
          /\ configFile' = d
          /\ events' = Append(events, ops)
          /\ watched' = ~IsReplace(ops)
    /\ UNCHANGED <<repos, reposMux, wpc, wev, wphase, wnew, wdoc, wbefore, rpc, rname, rres, rsnap>>
    /\ UNCHANGED outsideReg

\* a file is created or written at configPath while the watcher holds no
\* watch on it: no event is delivered
FileChangeUnwatched ==
    /\ ~watched
    /\ \E d \in ConfigDocs \ {DocMissing} : configFile' = d
    /\ UNCHANGED <<repos, reposMux, events, watched, wpc, wev, wphase, wnew, wdoc, wbefore,
                   rpc, rname, rres, rsnap>>
    /\ UNCHANGED outsideReg

\* where the watcher goes when the reloadConfig call of the given phase is over
AfterReload(phase, ops) ==
    IF phase = 1 /\ IsReplace(ops) THEN "rewatch" ELSE "select"

\* reloadConfig has returned: its locals are gone, and so is the event when
\* the loop is back at the select
ReloadReturns ==
    /\ wpc' = AfterReload(wphase, wev)
    /\ wev' = IF AfterReload(wphase, wev) = "select" THEN {} ELSE wev
    /\ wphase' = IF AfterReload(wphase, wev) = "select" THEN 0 ELSE wphase
    /\ wnew' = <<>>
    /\ wdoc' = DocMissing
    /\ wbefore' = <<>>

\* watchConfig: case event := <-watcher.Events
WatchReceive ==
    /\ wpc = "select"
    /\ events # <<>>
    /\ events' = Tail(events)
    /\ wpc' = IF IsSave(Head(events)) THEN "reload"
              ELSE IF IsReplace(Head(events)) THEN "rewatch"
              ELSE "select"
    /\ wev' = IF IsSave(Head(events)) \/ IsReplace(Head(events)) THEN Head(events) ELSE {}
    /\ wphase' = IF IsSave(Head(events)) THEN 1 ELSE 0
    /\ UNCHANGED <<repos, reposMux, configFile, wnew, wdoc, wbefore, rpc, rname, rres, rsnap>>
    /\ UNCHANGED watched
    /\ UNCHANGED outsideReg

\* watchConfig: watcher.Add(configPath) after a remove or rename; Add fails
\* when there is no file at configPath, and its error is dropped
WatchReAdd ==
    /\ wpc = "rewatch"
    /\ wpc' = "settle"
    /\ watched' = (configFile # DocMissing)
    /\ UNCHANGED <<repos, reposMux, configFile, events, wev, wphase, wnew, wdoc, wbefore,
                   rpc, rname, rres, rsnap>>
    /\ UNCHANGED outsideReg

\* watchConfig: time.Sleep(50 * time.Millisecond), then reloadConfig is called
WatchSettle ==
    /\ wpc = "settle"
    /\ wpc' = "reload"
    /\ wphase' = 2
    /\ UNCHANGED <<repos, reposMux, configFile, events, wev, wnew, wdoc, wbefore,
                   rpc, rname, rres, rsnap>>
    /\ UNCHANGED watched
    /\ UNCHANGED outsideReg

\* reloadConfig: reposMux.RLock()
ReloadRLock ==
    /\ wpc = "reload"
    /\ CanRLock(reposMux)
    /\ reposMux' = [reposMux EXCEPT !.r = @ \cup {"watcher"}]
    /\ wbefore' = repos
    /\ wpc' = "reload_path"
    /\ UNCHANGED <<repos, configFile, events, wev, wphase, wnew, wdoc, rpc, rname, rres, rsnap>>
    /\ UNCHANGED watched
    /\ UNCHANGED outsideReg

\* a plausible slip: the RUnlock is deferred to reloadConfig's return
ReloadRUnlockDeferred(mu) == mu

\* reloadConfig: reposMux.RUnlock() after the path is copied
ReloadRUnlock(mu) == [mu EXCEPT !.r = @ \ {"watcher"}]

\* reloadConfig: configPath := configFilePath; reposMux.RUnlock()
ReloadReadPath ==
    /\ wpc = "reload_path"
    /\ reposMux' = ReloadRUnlock(reposMux)
    /\ wpc' = "reload_read"
    /\ UNCHANGED <<repos, configFile, events, wev, wphase, wnew, wdoc, wbefore, rpc, rname, rres, rsnap>>
    /\ UNCHANGED watched
    /\ UNCHANGED outsideReg

\* reloadConfig: os.ReadFile, json.Unmarshal and the ParseRepository loop;
\* on an error reloadConfig returns it and watchConfig logs it
ReloadParse ==
    /\ wpc = "reload_read"
    /\ wdoc' = configFile
    /\ \E r \in LoadDocument(configFile) :
          IF r.err # NoErr
          THEN /\ wpc' = "reload_failed"
               /\ wnew' = <<>>
          ELSE /\ wpc' = "reload_lock"
               /\ wnew' = r.repos
    /\ UNCHANGED <<repos, reposMux, configFile, events, wev, wphase, wbefore, rpc, rname, rres, rsnap>>
    /\ UNCHANGED watched
    /\ UNCHANGED outsideReg

\* watchConfig: log.Printf("Failed to reload config ..."), the loop goes on
ReloadFailed ==
    /\ wpc = "reload_failed"
    /\ ReloadReturns
    /\ UNCHANGED <<repos, reposMux, configFile, events, rpc, rname, rres, rsnap>>
    /\ UNCHANGED watched
    /\ UNCHANGED outsideReg

\* a plausible slip: the read lock is taken for the assignment
ReloadLockGrantedAsReader(mu) == CanRLock(mu)

\* reloadConfig takes the write lock for the assignment
ReloadLockGranted(mu) == CanLock(mu)

\* reloadConfig: reposMux.Lock()
ReloadLock ==
    /\ wpc = "reload_lock"
    /\ ReloadLockGranted(reposMux)
    /\ reposMux' = [reposMux EXCEPT !.w = "watcher"]
    /\ wpc' = "reload_publish"
    /\ UNCHANGED <<repos, configFile, events, wev, wphase, wnew, wdoc, wbefore, rpc, rname, rres, rsnap>>
    /\ UNCHANGED watched
    /\ UNCHANGED outsideReg

\* reloadConfig: repos = newRepos; reposMux.Unlock(); return nil
ReloadPublish ==
    /\ wpc = "reload_publish"
    /\ repos' = wnew
    /\ reposMux' = [reposMux EXCEPT !.w = NoLock]
    /\ wpc' = "log_rlock"
    /\ UNCHANGED <<configFile, events, wev, wphase, wnew, wdoc, wbefore, rpc, rname, rres, rsnap>>
    /\ UNCHANGED watched
    /\ UNCHANGED outsideReg

\* watchConfig after a successful reload: reposMux.RLock()
LogRLock ==
    /\ wpc = "log_rlock"
    /\ CanRLock(reposMux)
    /\ reposMux' = [reposMux EXCEPT !.r = @ \cup {"watcher"}]
    /\ wpc' = "log_names"
    /\ UNCHANGED <<repos, configFile, events, wev, wphase, wnew, wdoc, wbefore, rpc, rname, rres, rsnap>>
    /\ UNCHANGED watched
    /\ UNCHANGED outsideReg

\* watchConfig: log.Printf(..., getRepoNames()); reposMux.RUnlock()
LogNames ==
    /\ wpc = "log_names"
    /\ reposMux' = [reposMux EXCEPT !.r = @ \ {"watcher"}]
    /\ ReloadReturns
    /\ UNCHANGED <<repos, configFile, events, rpc, rname, rres, rsnap>>
    /\ UNCHANGED watched
    /\ UNCHANGED outsideReg

\* a plausible slip: only local repositories are found, as before ssh
\* repositories existed
LookupRepoLocalOnly(m, name) ==
    IF name \in DOMAIN m /\ m[name].type = "local"
    THEN [kind |-> "repo", repo |-> m[name]]
    ELSE [kind |-> "unknown repository"]

\* getFileSystem: repo, ok := repos[repoName] and the error when !ok
LookupRepo(m, name) ==
    IF name \in DOMAIN m
    THEN [kind |-> "repo", repo |-> m[name]]
    ELSE [kind |-> "unknown repository"]

\* a plausible slip: the RUnlock is deferred and the read lock is still held
\* when getFileSystem goes on to repo.GetFileSystem(sshPool)
LookupRUnlockDeferred(mu, h) == mu

\* getFileSystem: reposMux.RUnlock() right after the map access
LookupRUnlock(mu, h) == [mu EXCEPT !.r = @ \ {h}]

\* a handler calls getFileSystem(repoName): reposMux.RLock()
GetFileSystemRLock(h) ==
    /\ rpc[h] \in {"idle", "done"}
    /\ CanRLock(reposMux)
    /\ reposMux' = [reposMux EXCEPT !.r = @ \cup {h}]
    /\ \E n \in RepoNames : rname' = [rname EXCEPT ![h] = n]
    /\ rres' = [rres EXCEPT ![h] = NoRes]
    /\ rsnap' = [rsnap EXCEPT ![h] = <<>>]
    /\ rpc' = [rpc EXCEPT ![h] = "get_read"]
    /\ UNCHANGED <<repos, configFile, events, wpc, wev, wphase, wnew, wdoc, wbefore>>
    /\ UNCHANGED watched
    /\ UNCHANGED outsideReg

\* getFileSystem: repo, ok := repos[repoName]; reposMux.RUnlock(); the
\* unknown-repository error when !ok
GetFileSystemRead(h) ==
    /\ rpc[h] = "get_read"
    /\ rres' = [rres EXCEPT ![h] = LookupRepo(repos, rname[h])]
    /\ reposMux' = LookupRUnlock(reposMux, h)
    /\ rpc' = [rpc EXCEPT ![h] = "done"]
    /\ UNCHANGED <<repos, configFile, events, wpc, wev, wphase, wnew, wdoc, wbefore, rname, rsnap>>
    /\ UNCHANGED watched
    /\ UNCHANGED outsideReg

\* handleListRepos is called: reposMux.RLock(); defer reposMux.RUnlock()
ListReposRLock(h) ==
    /\ rpc[h] \in {"idle", "done"}
    /\ CanRLock(reposMux)
    /\ reposMux' = [reposMux EXCEPT !.r = @ \cup {h}]
    /\ rname' = [rname EXCEPT ![h] = ""]
    /\ rres' = [rres EXCEPT ![h] = NoRes]
    /\ rsnap' = [rsnap EXCEPT ![h] = <<>>]
    /\ rpc' = [rpc EXCEPT ![h] = "list_range"]
    /\ UNCHANGED <<repos, configFile, events, wpc, wev, wphase, wnew, wdoc, wbefore>>
    /\ UNCHANGED watched
    /\ UNCHANGED outsideReg

\* the entry handleListRepos reports for a repository
RepoInfo(name, repo) ==
    IF repo.type = "ssh"
    THEN [name |-> name, type |-> repo.type, path |-> repo.path, host |-> repo.host, user |-> repo.user]
    ELSE [name |-> name, type |-> repo.type, path |-> repo.path, host |-> <<>>, user |-> <<>>]

\* handleListRepos: for name, repo := range repos { ... }; the range
\* expression is evaluated once
ListReposRange(h) ==
    /\ rpc[h] = "list_range"
    /\ rsnap' = [rsnap EXCEPT ![h] = repos]
    /\ rpc' = [rpc EXCEPT ![h] = "list_count"]
    /\ UNCHANGED <<repos, reposMux, configFile, events, wpc, wev, wphase, wnew, wdoc, wbefore, rname, rres>>
    /\ UNCHANGED watched
    /\ UNCHANGED outsideReg

\* handleListRepos: the result with "count": len(repos); the deferred
\* RUnlock runs at the return
ListReposReturn(h) ==
    /\ rpc[h] = "list_count"
    /\ rres' = [rres EXCEPT ![h] =
                   [kind |-> "list",
                    repositories |-> {RepoInfo(n, rsnap[h][n]) : n \in DOMAIN rsnap[h]},
                    count |-> Cardinality(DOMAIN repos)]]
    /\ reposMux' = [reposMux EXCEPT !.r = @ \ {h}]
    /\ rpc' = [rpc EXCEPT ![h] = "done"]
    /\ UNCHANGED <<repos, configFile, events, wpc, wev, wphase, wnew, wdoc, wbefore, rname, rsnap>>
    /\ UNCHANGED watched
    /\ UNCHANGED outsideReg

RegNext ==
    \/ FileEvent
    \/ FileChangeUnwatched
    \/ WatchReceive
    \/ WatchReAdd
    \/ WatchSettle
    \/ ReloadRLock
    \/ ReloadReadPath
    \/ ReloadParse
    \/ ReloadFailed
    \/ ReloadLock
    \/ ReloadPublish
    \/ LogRLock
    \/ LogNames
    \/ \E h \in Handlers : GetFileSystemRLock(h)
    \/ \E h \in Handlers : GetFileSystemRead(h)
    \/ \E h \in Handlers : ListReposRLock(h)
    \/ \E h \in Handlers : ListReposRange(h)
    \/ \E h \in Handlers : ListReposReturn(h)

-----------------------------------------------------------------------------
(* Properties of the registry *)

\* the document cannot be loaded: the file is unreadable, is not JSON, or one
\* of its repository values fails ParseRepository
DocFails(d) ==
    \/ d.kind # "json"
    \/ \E n \in DOMAIN d.repositories : ParseRepository(n, d.repositories[n]).err # NoErr

\* C4: a reload of a document that cannot be loaded ends in the failure
\* branch and leaves the published map exactly as it was when the reload
\* began; nothing of the document is published.
C4_FailedReloadKeepsRegistry ==
    (/\ wpc \in {"reload_failed", "reload_lock", "reload_publish", "log_rlock", "log_names"}
     /\ DocFails(wdoc)) =>
        /\ wpc = "reload_failed"
        /\ wnew = <<>>
        /\ repos = wbefore

\* the reload of the document with one good and two bad entries has failed:
\* docs still has its old path and lib is not visible
C4_Witness ==
    /\ wpc = "reload_failed"
    /\ wdoc = DocPartlyBad
    /\ "docs" \in DOMAIN repos
    /\ repos["docs"].path = <<"/", "r">>
    /\ "lib" \notin DOMAIN repos

\* C5: the published map changes only by the watcher's assignment of a whole
\* new map while it holds the write lock and no reader holds the read lock;
\* a list_repos enumeration reports the entries and the count of one map.
C5_ReadersSeeOneMap ==
    /\ [](\A h \in Handlers :
            /\ rpc[h] \in {"get_read", "list_range", "list_count"} => h \in reposMux.r
            /\ rpc[h] = "list_count" => rsnap[h] = repos
            /\ (rpc[h] = "done" /\ rres[h].kind = "list") =>
                  /\ rres[h].count = Cardinality(DOMAIN rsnap[h])
                  /\ rres[h].repositories = {RepoInfo(n, rsnap[h][n]) : n \in DOMAIN rsnap[h]})
    /\ [][repos' # repos =>
            /\ reposMux.w = "watcher"
            /\ reposMux.r = {}
            /\ repos' = wnew]_vars

\* an enumeration holds the read lock while the reload waits to publish a
\* different map
C5_Witness ==
    \E h \in Handlers :
        /\ rpc[h] = "list_count"
        /\ wpc = "reload_lock"
        /\ wnew # repos
        /\ rsnap[h] = repos

\* C13: when a reload succeeds, every name of the document it read is in the
\* published map, and a lookup resolves its name exactly when the map
\* published at that moment has it: a name the reload added resolves from
\* the swap on, and a name in both the old and the new map resolves at
\* every point of the reload.
C13_LookupsFollowPublishedMap ==
    [][/\ (wpc = "reload_publish" /\ wpc' = "log_rlock") =>
             DOMAIN repos' = DOMAIN wdoc.repositories
       /\ \A h \in Handlers :
             (rpc[h] = "get_read" /\ rpc'[h] = "done") =>
                /\ rname[h] \in DOMAIN repos =>
                      rres'[h] = [kind |-> "repo", repo |-> repos[rname[h]]]
                /\ (wpc = "reload_lock" /\ rname[h] \in DOMAIN wbefore \cap DOMAIN wnew) =>
                      rres'[h].kind = "repo"]_vars

\* svc was added by a reload: a lookup from before the swap did not find it,
\* one after the swap did
C13_Witness ==
    /\ "svc" \in DOMAIN repos
    /\ rpc["q1"] = "done" /\ rname["q1"] = "svc" /\ rres["q1"].kind = "unknown repository"
    /\ rpc["q2"] = "done" /\ rname["q2"] = "svc" /\ rres["q2"].kind = "repo"

\* C23: once the watcher has handled the events it received and waits for
\* the next one, a configuration file that exists is watched, so that its
\* next write is delivered and reloaded.
C23_WatchKept ==
    (wpc = "select" /\ events = <<>> /\ configFile # DocMissing) => watched

\* C28: the watcher holds the write lock only at the assignment of the new
\* map and a read lock only where it copies the path or logs the names; it
\* holds none while it re-adds the watch, waits for the file to settle or
\* reads and parses the file, and at those positions the lock is free for
\* the lookups to take.
C28_ReloadLocksOnlyTheSwap ==
    /\ reposMux.w = "watcher" <=> wpc = "reload_publish"
    /\ "watcher" \in reposMux.r <=> wpc \in {"reload_path", "log_names"}
    /\ wpc \in {"rewatch", "settle", "reload_read"} => CanRLock(reposMux)

\* both handlers hold the read lock in a lookup while the watcher, after a
\* remove or rename, is about to read the file
C28_Witness ==
    /\ wpc = "reload_read"
    /\ wphase = 2
    /\ \A h \in Handlers : rpc[h] = "get_read" /\ h \in reposMux.r

\* C24: the watcher takes an event only while it waits in the select; after
\* a write or create event its next steps are those of reloadConfig, none of
\* which waits for a writer, up to the reading and parsing of the file as it
\* is at that moment, and it is back at the select only when the reload has
\* failed or has published; the published map changes only to the map parsed
\* from the document that reload read.
C24_SaveEventReloads ==
    [][/\ (events # <<>> /\ events' = Tail(events)) =>
             /\ wpc = "select"
             /\ Head(events) \cap {"Write", "Create"} # {} =>
                   wpc' = "reload" /\ wphase' = 1 /\ wev' = Head(events)
       /\ wpc = "reload" => CanRLock(reposMux) /\ wpc' \in {"reload", "reload_path"}
       /\ wpc = "reload_path" => wpc' \in {"reload_path", "reload_read"}
       /\ wpc = "reload_read" => wpc' \in {"reload_read", "reload_failed", "reload_lock"}
       /\ (wpc = "reload_read" /\ wpc' # wpc) =>
             /\ wdoc' = configFile
             /\ wpc' = "reload_lock" =>
                   \E r \in LoadDocument(configFile) : r.err = NoErr /\ wnew' = r.repos
       /\ (wpc # "select" /\ wpc' = "select") => wpc \in {"reload_failed", "log_names"}
       /\ repos' # repos =>
             /\ wpc = "reload_publish"
             /\ repos' = wnew
             /\ \E r \in LoadDocument(wdoc) : r.err = NoErr /\ wnew = r.repos]_vars

\* the reload after a create event has published the map of the document
\* with both repositories
C24_Witness ==
    /\ wpc = "log_names"
    /\ wev = {"Create"}
    /\ wdoc = DocBoth
    /\ repos = wnew
    /\ DOMAIN repos = {"docs", "svc"}

-----------------------------------------------------------------------------
(* main.go: shouldSkip applied to a name or path *)

MyNodeModules == <<"m", "y", ".">> \o NodeModules

NodeModulesCased == <<"N", "o", "d", "e", "_", "M", "o", "d", "u", "l", "e", "s">>

MaxSkipSegs == 2

SkipSegs == {NodeModules, MyNodeModules, NodeModulesCased, NodeModules \o <<"s">>,
             <<".", "g">>, <<"g", ".">>, <<"g">>, Dot, <<>>}

SkipNames == {JoinSep(segs) : segs \in UNION {[1..n -> SkipSegs] : n \in 0..MaxSkipSegs}}

SkipInit ==
    /\ kpc = "start"
    /\ kname \in SkipNames
    /\ kres = FALSE

SkipIdle ==
    /\ kpc = "none"
    /\ kname = <<>>
    /\ kres = FALSE

\* a caller evaluates shouldSkip(kname)
CallShouldSkip ==
    /\ kpc = "start"
    /\ kres' = shouldSkip(kname)
    /\ kpc' = "done"
    /\ UNCHANGED kname
    /\ UNCHANGED outsideSkip

SkipNext == CallShouldSkip

NonEmptySeg(e) == e # <<>>

\* the base name of a path: its last non-empty element, "." for the empty
\* path and "/" for a path of separators only
BaseName(p) ==
    LET named == SelectSeq(SplitSep(p), NonEmptySeg)
    IN IF p = <<>> THEN Dot
       ELSE IF named = <<>> THEN Root
       ELSE named[Len(named)]

\* C12: shouldSkip is true exactly when the base name starts with "." or is
\* node_modules, compared case-sensitively; it is false for every other
\* name, among them my.node_modules and Node_Modules.
C12_ShouldSkipExactly ==
    kpc = "done" =>
        /\ kres = (BaseName(kname)[1] = "." \/ BaseName(kname) = NodeModules)
        /\ BaseName(kname) \in {MyNodeModules, NodeModulesCased} => ~kres

\* shouldSkip answered false for a/my.node_modules
C12_Witness ==
    /\ kpc = "done"
    /\ kname = <<"g", "/">> \o MyNodeModules
    /\ kres = FALSE

-----------------------------------------------------------------------------
(* main.go: loadConfig at the start of main and reloadConfig after a change *)
(* of the file, each taken as a whole, over documents whose entries range   *)
(* over the types and the ssh fields                                        *)

LoadTypes == {"", "local", "ssh", "ftp"}

LoadObjects ==
    [type : LoadTypes, path : {<<>>, <<"/", "p">>}, host : {<<>>, <<"h">>}, port : {0},
     user : {<<>>, <<"u">>}, key : {<<>>}]
    \cup {[SshSvc EXCEPT !.port = 2222, !.key = <<"~", "/", "k">>]}

LoadEntries == {RawObject(o) : o \in LoadObjects} \cup {RawOther}

\* the documents: svc is any entry, docs is absent or a legacy string entry
LoadDocs ==
    {JsonDoc([n \in {"svc"} |-> e]) : e \in LoadEntries}
    \cup {JsonDoc([n \in {"docs", "svc"} |->
                     IF n = "docs" THEN RawString(<<"/", "r">>) ELSE e]) : e \in LoadEntries}
    \cup {JsonDoc(<<>>), DocDocs, DocGarbage, DocMissing}

NoLoadErr == [err |-> NoErr, name |-> ""]

LoadInit ==
    /\ lpc = "start"
    /\ lerr = NoLoadErr
    /\ configFile \in LoadDocs
    /\ repos = <<>>
    /\ reposMux = [w |-> NoLock, r |-> {}]
    /\ events = <<>>
    /\ watched = FALSE
    /\ wpc = "none"
    /\ wev = {}
    /\ wphase = 0
    /\ wnew = <<>>
    /\ wdoc = DocMissing
    /\ wbefore = <<>>
    /\ rpc = <<>>
    /\ rname = <<>>
    /\ rres = <<>>
    /\ rsnap = <<>>

LoadIdle ==
    /\ lpc = "none"
    /\ lerr = NoLoadErr

\* main: loadConfig(configPath); log.Fatalf on an error, log.Fatal when no
\* repository is configured
loadConfig ==
    /\ lpc = "start"
    /\ \E r \in LoadDocument(configFile) :
          /\ lerr' = [err |-> r.err, name |-> r.name]
          /\ repos' = r.repos
          /\ lpc' = IF r.err # NoErr \/ DOMAIN r.repos = {} THEN "fatal" ELSE "serving"
    /\ UNCHANGED <<reposMux, configFile, events, wpc, wev, wphase, wnew, wdoc, wbefore,
                   rpc, rname, rres, rsnap>>
    /\ UNCHANGED watched
    /\ UNCHANGED outsideLoad

\* the file is replaced by another document and reloadConfig runs on it: the
\* map is replaced when the whole document parses, and kept otherwise
reloadConfig ==
    /\ lpc = "serving"
    /\ \E d \in LoadDocs :
          /\ configFile' = d
          /\ \E r \in LoadDocument(d) :
                /\ lerr' = [err |-> r.err, name |-> r.name]
                /\ repos' = IF r.err = NoErr THEN r.repos ELSE repos
    /\ UNCHANGED <<lpc, reposMux, events, wpc, wev, wphase, wnew, wdoc, wbefore,
                   rpc, rname, rres, rsnap>>
    /\ UNCHANGED watched
    /\ UNCHANGED outsideLoad

LoadNext == loadConfig \/ reloadConfig

\* an entry of the document that declares an ssh repository without one of
\* the fields an ssh repository needs
DeficientSsh(raw) ==
    /\ raw.shape = "object"
    /\ raw.obj.type = "ssh"
    /\ raw.obj.host = <<>> \/ raw.obj.user = <<>> \/ raw.obj.path = <<>>

\* an entry that is neither a string nor an object
Unparsable(raw) == raw.shape = "other"

\* C14: every ssh repository of the published map has a host, a user and a
\* path; a document with an ssh entry that lacks one of them is rejected when
\* it is loaded or reloaded, with an error that names an offending entry of
\* the document, and nothing of it is published.
C14_SshEntriesComplete ==
    /\ \A n \in DOMAIN repos :
          repos[n].type = "ssh" =>
             repos[n].host # <<>> /\ repos[n].user # <<>> /\ repos[n].path # <<>>
    /\ (lpc \in {"serving", "fatal"} /\ configFile.kind = "json"
          /\ \E n \in DOMAIN configFile.repositories : DeficientSsh(configFile.repositories[n])) =>
             /\ lerr.err # NoErr
             /\ lerr.name \in DOMAIN configFile.repositories
             /\ DeficientSsh(configFile.repositories[lerr.name])
                   \/ Unparsable(configFile.repositories[lerr.name])

\* the server runs on a map with a complete ssh repository, and the
\* reload of a document whose ssh entry has no path was rejected naming svc
C14_Witness ==
    /\ lpc = "serving"
    /\ "svc" \in DOMAIN repos /\ repos["svc"].type = "ssh"
    /\ configFile = JsonDoc([n \in {"svc"} |-> RawObject([SshSvc EXCEPT !.path = <<>>])])
    /\ lerr = [err |-> "SSH repo requires 'path'", name |-> "svc"]

\* C15: every repository of the published map has type local or ssh.
C15_TypesLocalOrSsh ==
    \A n \in DOMAIN repos : repos[n].type \in {"local", "ssh"}

\* C34: while the server runs, after a startup that found at least one
\* repository, the published map holds at least one repository.
C34_RegistryNeverEmpty ==
    lpc = "serving" => DOMAIN repos # {}

\* the descriptor a repository object is to become: an absent type is local,
\* an ssh repository's zero port is 22 and its absent key is the default key
\* file below the home directory; every other field is as supplied
Defaulted(obj) ==
    [type |-> IF obj.type = "" THEN "local" ELSE obj.type,
     path |-> obj.path,
     host |-> obj.host,
     user |-> obj.user,
     port |-> IF obj.type = "ssh" /\ obj.port = 0 THEN DefaultPort ELSE obj.port,
     key |-> IF obj.type = "ssh" /\ obj.key = <<>>
             THEN Join(UserHomeDir.dir, SubSeq(DefaultKeyFile, 2, Len(DefaultKeyFile)))
             ELSE obj.key]

-----------------------------------------------------------------------------
(* The file tree of a repository: what Stat and ReadDir of LocalFS and      *)
(* RemoteFS find below the root directory.  A node is the sequence of names *)
(* from the root and its kind; "other" is neither directory nor regular.    *)

NameSrc == <<"s">>
NameATs == <<"a", ".", "t", "s">>
NameBTsx == <<"b", ".", "t", "s", "x">>
NameHiddenTs == <<".", "h", ".", "t", "s">>
NameGit == <<".", "g">>
NameCTs == <<"c", ".", "t", "s">>

\* the names in the byte order os.ReadDir and filepath.Walk list them in
NameOrder == <<NameGit, NameHiddenTs, NameATs, NameBTsx, NameCTs, NodeModules, NameSrc>>

NameRank(name) == CHOOSE i \in 1..Len(NameOrder) : NameOrder[i] = name

TreeUniverse ==
    {[path |-> <<NameSrc>>, kind |-> "dir"],
     [path |-> <<NameSrc, NameATs>>, kind |-> "file"],
     [path |-> <<NameSrc, NameBTsx>>, kind |-> "file"],
     [path |-> <<NameSrc, NameHiddenTs>>, kind |-> "file"],
     [path |-> <<NameGit>>, kind |-> "dir"],
     [path |-> <<NameGit, NameCTs>>, kind |-> "file"],
     [path |-> <<NodeModules>>, kind |-> "dir"],
     [path |-> <<NodeModules, NameATs>>, kind |-> "file"],
     [path |-> <<NameCTs>>, kind |-> "file"],
     [path |-> <<NameBTsx>>, kind |-> "other"]}

MaxNodes == 5

Parent(path) == SubSeq(path, 1, Len(path) - 1)

\* the trees: every node but a top-level one lies in a directory of the tree
Trees ==
    {t \in SUBSET TreeUniverse :
        /\ Cardinality(t) <= MaxNodes
        /\ \A n \in t : Len(n.path) > 1 =>
              \E d \in t : d.path = Parent(n.path) /\ d.kind = "dir"}

\* the file system a FileSystem works on: the tree t below the directory
\* whose cleaned absolute path has the elements root
KindAt(root, t, elems) ==
    IF elems = root THEN "dir"
    ELSE IF ~IsPrefixSeq(root, elems) THEN "missing"
    ELSE LET found == {n \in t : n.path = SubSeq(elems, Len(root) + 1, Len(elems))}
         IN IF found = {} THEN "missing" ELSE (CHOOSE n \in found : TRUE).kind

\* the entries of the directory at elems: [name, kind], unordered
EntriesAt(root, t, elems) ==
    IF ~IsPrefixSeq(root, elems) THEN {}
    ELSE {[name |-> n.path[Len(n.path)], kind |-> n.kind] :
             n \in {m \in t : Parent(m.path) = SubSeq(elems, Len(root) + 1, Len(elems))}}

RECURSIVE SortByName(_)
SortByName(es) ==
    IF es = {} THEN <<>>
    ELSE LET first == CHOOSE e \in es : \A f \in es : NameRank(e.name) <= NameRank(f.name)
         IN <<first>> \o SortByName(es \ {first})

\* os.ReadDir / sftp ReadDir of the directory: entries in name order
ReadDirAt(root, t, elems) == SortByName(EntriesAt(root, t, elems))

-----------------------------------------------------------------------------
(* filepath.Match for patterns of literal characters, "?" and "*" *)

RECURSIVE MatchFrom(_, _, _, _)
MatchFrom(pat, i, name, j) ==
    IF i > Len(pat) THEN j > Len(name)
    ELSE IF pat[i] = "*"
    THEN \E k \in j..(Len(name) + 1) :
            /\ \A x \in j..(k - 1) : name[x] # Sep
            /\ MatchFrom(pat, i + 1, name, k)
    ELSE /\ j <= Len(name)
         /\ (pat[i] = "?" /\ name[j] # Sep) \/ pat[i] = name[j]
         /\ MatchFrom(pat, i + 1, name, j + 1)

Match(pattern, name) == MatchFrom(pattern, 1, name, 1)

-----------------------------------------------------------------------------
(* The functions handed to FileSystem.Walk.  A visit gets the list built so *)
(* far, the path, the kind of the node ("missing" when info is nil) and     *)
(* whether err is set; it returns [ret, out] with ret "nil", "SkipDir" or   *)
(* "err".                                                                   *)

\* handleSearchFiles: matches = append(matches, relPath) unless relPath is ""
searchMatched(out, rel) ==
    [ret |-> "nil", out |-> IF rel.path # <<>> THEN Append(out, rel.path) ELSE out]

\* a plausible slip: a skipped directory is left out of the result but the
\* walk goes on into it
skippedEntryWalked(kind) == "nil"

\* the visit's answer for an entry shouldSkip excludes: filepath.SkipDir for
\* a directory, nil for anything else
skippedEntry(kind) == IF kind = "dir" THEN "SkipDir" ELSE "nil"

\* handleSearchFiles: the function literal passed to fs.Walk(".")
searchVisit(cb, out, path, kind, err) ==
    IF err THEN [ret |-> "err", out |-> out]
    ELSE IF path = cb.basePath THEN [ret |-> "nil", out |-> out]
    ELSE IF shouldSkip(path)
    THEN [ret |-> skippedEntry(kind), out |-> out]
    ELSE IF kind = "file" /\ Match(cb.pattern, Base(path))
    THEN searchMatched(out, Rel(cb.basePath, path))
    ELSE [ret |-> "nil", out |-> out]

\* handleListFiles, recursive: the function literal passed to fs.Walk(relPath)
listVisit(cb, out, path, kind, err) ==
    IF err THEN [ret |-> "err", out |-> out]
    ELSE IF path = cb.targetPath \/ path = cb.basePath THEN [ret |-> "nil", out |-> out]
    ELSE IF shouldSkip(path)
    THEN [ret |-> skippedEntry(kind), out |-> out]
    ELSE IF kind = "file"
    THEN searchMatched(out, Rel(cb.targetPath, path))
    ELSE [ret |-> "nil", out |-> out]

\* any other caller of Walk: a visit that records the call; it returns
\* cb.onErr when it is handed an error, an error of its own for the paths in
\* cb.fail and SkipDir for the paths in cb.prune
recordVisit(cb, out, path, kind, err) ==
    [ret |-> IF err THEN cb.onErr
             ELSE IF path \in cb.fail THEN "err"
             ELSE IF path \in cb.prune THEN "SkipDir"
             ELSE "nil",
     out |-> Append(out, [path |-> path, kind |-> kind, err |-> err])]

Visit(cb, out, path, kind, err) ==
    IF cb.fn = "search" THEN searchVisit(cb, out, path, kind, err)
    ELSE IF cb.fn = "list" THEN listVisit(cb, out, path, kind, err)
    ELSE recordVisit(cb, out, path, kind, err)

-----------------------------------------------------------------------------
(* FileSystem.Walk.  fsys is [root, tree, unreadable, unstattable]: the     *)
(* tree below the directory root, the directories whose ReadDir fails and   *)
(* the nodes whose Stat fails although their directory lists them.          *)

\* where the operating system or the SFTP server finds a path
Locate(path) == Elems(Abs(path))

\* what Stat or Lstat reports on the node at at: "missing" when it fails
StatAt(fsys, at) ==
    IF at \in fsys.unstattable THEN "missing" ELSE KindAt(fsys.root, fsys.tree, at)

RECURSIVE walkDir(_, _, _, _)
RECURSIVE walkEntries(_, _, _, _, _, _)

\* a plausible slip: SkipDir ends the visit of the directory without error
\* but its entries are walked all the same
walkVisitedNoPrune(cb, fsys, path, at, kind, v) ==
    IF v.ret \notin {"nil", "SkipDir"} THEN v
    ELSE IF kind # "dir" THEN [ret |-> "nil", out |-> v.out]
    ELSE IF at \in fsys.unreadable THEN Visit(cb, v.out, path, kind, TRUE)
    ELSE walkEntries(cb, fsys, path, ReadDirAt(fsys.root, fsys.tree, at), 1, v.out)

\* RemoteFS.walkDir after fn(path, info, nil) returned v; at is where the
\* path lies
walkVisited(cb, fsys, path, at, kind, v) ==
    IF v.ret = "SkipDir" THEN [ret |-> "nil", out |-> v.out]
    ELSE IF v.ret # "nil" THEN v
    ELSE IF kind # "dir" THEN v
    ELSE IF at \in fsys.unreadable THEN Visit(cb, v.out, path, kind, TRUE)
    ELSE walkEntries(cb, fsys, path, ReadDirAt(fsys.root, fsys.tree, at), 1, v.out)

\* a plausible slip: a failed Stat ends the walk of the node with an error
\* the visit function never sees
walkStattedSilent(cb, fsys, path, at, kind, out) ==
    IF kind = "missing"
    THEN [ret |-> "err", out |-> out]
    ELSE walkVisited(cb, fsys, path, at, kind, Visit(cb, out, path, kind, FALSE))

\* RemoteFS.walkDir after fs.Stat(path) reported kind
walkStatted(cb, fsys, path, at, kind, out) ==
    IF kind = "missing"
    THEN Visit(cb, out, path, "missing", TRUE)
    ELSE walkVisited(cb, fsys, path, at, kind, Visit(cb, out, path, kind, FALSE))

\* RemoteFS.walkDir on the path that lies at at
walkDirAt(cb, fsys, path, at, out) ==
    walkStatted(cb, fsys, path, at, StatAt(fsys, at), out)

\* RemoteFS.walkDir
walkDir(cb, fsys, path, out) == walkDirAt(cb, fsys, path, Locate(path), out)

\* RemoteFS.walkDir: the loop goes on after an entry that returned r
walkEntry(cb, fsys, path, entries, i, r) ==
    IF r.ret # "nil" THEN r
    ELSE walkEntries(cb, fsys, path, entries, i + 1, r.out)

\* RemoteFS.walkDir: for _, entry := range entries, from entry i on
walkEntries(cb, fsys, path, entries, i, out) ==
    IF i > Len(entries) THEN [ret |-> "nil", out |-> out]
    ELSE walkEntry(cb, fsys, path, entries, i,
                   IF entries[i].kind = "dir"
                   THEN walkDir(cb, fsys, path \o <<Sep>> \o entries[i].name, out)
                   ELSE Visit(cb, out, path \o <<Sep>> \o entries[i].name,
                              entries[i].kind, FALSE))

\* RemoteFS.Walk(root, fn)
RemoteWalk(cb, fsys, basePathOfFs, root) == walkDir(cb, fsys, Join(basePathOfFs, root), <<>>)

RECURSIVE fwalk(_, _, _, _, _)
RECURSIVE fwalkNames(_, _, _, _, _, _)

\* filepath.Walk's walk on a directory after walkFn returned v; failed says
\* that reading the directory failed
fwalkVisited(cb, fsys, path, at, failed, v) ==
    IF failed \/ v.ret # "nil" THEN v
    ELSE fwalkNames(cb, fsys, path, ReadDirAt(fsys.root, fsys.tree, at), 1, v.out)

\* filepath.Walk's walk on the directory that lies at at
fwalkDir(cb, fsys, path, at, out) ==
    fwalkVisited(cb, fsys, path, at, at \in fsys.unreadable,
                 Visit(cb, out, path, "dir", at \in fsys.unreadable))

\* filepath.Walk's walk(path, info, walkFn), as LocalFS.Walk runs it
fwalk(cb, fsys, path, kind, out) ==
    IF kind # "dir" THEN Visit(cb, out, path, kind, FALSE)
    ELSE fwalkDir(cb, fsys, path, Locate(path), out)

\* filepath.Walk's walk: the loop goes on after a name that returned r;
\* SkipDir ends the loop only when it comes from the walk of a name that is
\* not a directory
fwalkName(cb, fsys, path, entries, i, lstatFailed, r) ==
    IF r.ret # "nil" /\ r.ret # "SkipDir" THEN r
    ELSE IF r.ret = "SkipDir" /\ ~lstatFailed /\ entries[i].kind # "dir" THEN r
    ELSE fwalkNames(cb, fsys, path, entries, i + 1, r.out)

\* filepath.Walk's walk on the name that lies at at: walkFn gets the error
\* of lstat, or the name is walked
fwalkChild(cb, fsys, path, entries, i, at, out) ==
    fwalkName(cb, fsys, path, entries, i, at \in fsys.unstattable,
              IF at \in fsys.unstattable
              THEN Visit(cb, out, Join(path, entries[i].name), "missing", TRUE)
              ELSE fwalk(cb, fsys, Join(path, entries[i].name), entries[i].kind, out))

\* filepath.Walk's walk: for _, name := range names, from name i on
fwalkNames(cb, fsys, path, entries, i, out) ==
    IF i > Len(entries) THEN [ret |-> "nil", out |-> out]
    ELSE fwalkChild(cb, fsys, path, entries, i, Locate(Join(path, entries[i].name)), out)

\* filepath.Walk: SkipDir from the walk of the root is no error
fwalkRoot(r) == IF r.ret = "SkipDir" THEN [ret |-> "nil", out |-> r.out] ELSE r

\* filepath.Walk after os.Lstat(root) reported kind
fwalkStatted(cb, fsys, root, kind) ==
    fwalkRoot(IF kind = "missing"
              THEN Visit(cb, <<>>, root, "missing", TRUE)
              ELSE fwalk(cb, fsys, root, kind, <<>>))

\* filepath.Walk(root, fn)
filepathWalk(cb, fsys, root) ==
    fwalkStatted(cb, fsys, root, StatAt(fsys, Locate(root)))

\* LocalFS.Walk(root, fn)
LocalWalk(cb, fsys, basePathOfFs, root) == filepathWalk(cb, fsys, Join(basePathOfFs, root))

-----------------------------------------------------------------------------
(* main.go: the request handlers, each from its arguments to its result.    *)
(* A result is [kind, ...]; access lists the FileSystem calls made and      *)
(* dials counts the calls of sshPool.GetRemoteFS.                           *)

ErrUnknownRepo == "unknown repository"

\* a plausible slip: a name that is not configured is served from the
\* repository docs
getFileSystemFallback(m, repoName, connOk) ==
    IF LookupRepo(m, repoName).kind # "repo"
    THEN [err |-> NoErr, type |-> "local", basePath |-> m["docs"].path, dials |-> 0]
    ELSE IF m[repoName].type \in {"local", ""}
    THEN [err |-> NoErr, type |-> "local", basePath |-> m[repoName].path, dials |-> 0]
    ELSE IF m[repoName].type = "ssh"
    THEN [err |-> IF connOk THEN NoErr ELSE "failed to connect",
          type |-> "ssh", basePath |-> m[repoName].path, dials |-> 1]
    ELSE [err |-> "unknown repository type", type |-> "", basePath |-> <<>>, dials |-> 0]

\* getFileSystem(repoName): the lookup and Repository.GetFileSystem; connOk
\* says whether the pool delivers a connection
getFileSystem(m, repoName, connOk) ==
    IF LookupRepo(m, repoName).kind # "repo"
    THEN [err |-> ErrUnknownRepo, type |-> "", basePath |-> <<>>, dials |-> 0]
    ELSE IF m[repoName].type \in {"local", ""}
    THEN [err |-> NoErr, type |-> "local", basePath |-> m[repoName].path, dials |-> 0]
    ELSE IF m[repoName].type = "ssh"
    THEN [err |-> IF connOk THEN NoErr ELSE "failed to connect",
          type |-> "ssh", basePath |-> m[repoName].path, dials |-> 1]
    ELSE [err |-> "unknown repository type", type |-> "", basePath |-> <<>>, dials |-> 0]

\* FileSystem.Walk of either implementation
FsWalk(fs, cb, fsys, root) ==
    IF fs.type = "ssh" THEN RemoteWalk(cb, fsys, fs.basePath, root)
    ELSE LocalWalk(cb, fsys, fs.basePath, root)

\* the node FileSystem.Stat(relPath) reports on
FsKind(fs, fsys, relPath) == KindAt(fsys.root, fsys.tree, Locate(Join(fs.basePath, relPath)))

RECURSIVE listEntriesNoSuffix(_, _, _)
\* a plausible slip: directories are listed without the trailing separator
listEntriesNoSuffix(entries, i, files) ==
    IF i > Len(entries) THEN files
    ELSE listEntriesNoSuffix(entries, i + 1,
                             IF shouldSkip(entries[i].name) THEN files
                             ELSE Append(files, entries[i].name))

RECURSIVE listEntries(_, _, _)
\* handleListFiles: for _, entry := range entries
listEntries(entries, i, files) ==
    IF i > Len(entries) THEN files
    ELSE listEntries(entries, i + 1,
                     IF shouldSkip(entries[i].name) THEN files
                     ELSE IF entries[i].kind = "dir"
                     THEN Append(files, entries[i].name \o <<Sep>>)
                     ELSE Append(files, entries[i].name))

Failed(msg, access, dials) == [res |-> [kind |-> "error", msg |-> msg], access |-> access, dials |-> dials]

\* a handler after fs.Walk returned w: the error, or the list under the key
\* kind
Walked(w, kind, access, dials) ==
    IF w.ret # "nil" THEN Failed("walk error", access, dials)
    ELSE [res |-> [kind |-> kind, list |-> w.out], access |-> access, dials |-> dials]

\* handleListFiles: the directory at at is listed, by Walk or by ReadDir
listDir(fs, fsys, relPath, at, recursive) ==
    IF recursive
    THEN Walked(FsWalk(fs, [fn |-> "list", basePath |-> fs.basePath,
                            targetPath |-> Join(fs.basePath, relPath)], fsys, relPath),
                "files", <<"Stat", "Walk">>, fs.dials)
    ELSE IF at \in fsys.unreadable
    THEN Failed("read dir error", <<"Stat", "ReadDir">>, fs.dials)
    ELSE [res |-> [kind |-> "files",
                   list |-> listEntries(ReadDirAt(fsys.root, fsys.tree, at), 1, <<>>)],
          access |-> <<"Stat", "ReadDir">>, dials |-> fs.dials]

\* handleListFiles after fs.Stat(relPath) reported kind
listStatted(fs, fsys, relPath, kind, recursive) ==
    IF kind = "missing" THEN Failed("Path does not exist", <<"Stat">>, fs.dials)
    ELSE IF kind # "dir" THEN Failed("Path is not a directory", <<"Stat">>, fs.dials)
    ELSE listDir(fs, fsys, relPath, Locate(Join(fs.basePath, relPath)), recursive)

\* handleListFiles after ValidatePath returned v
listValidated(fs, fsys, v, recursive) ==
    IF v.err # NoErr THEN Failed(ErrTraversal, <<>>, fs.dials)
    ELSE listStatted(fs, fsys, v.path, FsKind(fs, fsys, v.path), recursive)

\* handleListFiles after getFileSystem returned fs
listFilesOn(fs, fsys, path, recursive) ==
    IF fs.err # NoErr THEN Failed(fs.err, <<>>, fs.dials)
    ELSE listValidated(fs, fsys, ValidatePath(fs.basePath, path), recursive)

\* handleListFiles
listFiles(m, fsys, repoName, path, recursive, connOk) ==
    listFilesOn(getFileSystem(m, repoName, connOk), fsys, path, recursive)

\* handleSearchFiles after getFileSystem returned fs
searchFilesOn(fs, fsys, pattern) ==
    IF fs.err # NoErr THEN Failed(fs.err, <<>>, fs.dials)
    ELSE Walked(FsWalk(fs, [fn |-> "search", basePath |-> fs.basePath,
                            pattern |-> pattern], fsys, Dot),
                "matches", <<"Walk">>, fs.dials)

\* handleSearchFiles
searchFiles(m, fsys, repoName, pattern, connOk) ==
    searchFilesOn(getFileSystem(m, repoName, connOk), fsys, pattern)

\* a plausible slip: the file is removed from the repository once it was read
readStattedRemoving(fs, relPath, kind) ==
    IF kind = "missing" THEN Failed("File does not exist", <<"Stat">>, fs.dials)
    ELSE IF kind # "file" THEN Failed("Path is not a file", <<"Stat">>, fs.dials)
    ELSE IF shouldSkip(relPath) THEN Failed("Access denied", <<"Stat">>, fs.dials)
    ELSE [res |-> [kind |-> "content", of |-> Locate(Join(fs.basePath, relPath))],
          access |-> <<"Stat", "ReadFile", "RemoveAll">>, dials |-> fs.dials]

\* handleReadFile and handleReadResourceTemplate after fs.Stat(relPath)
\* reported kind
readStatted(fs, relPath, kind) ==
    IF kind = "missing" THEN Failed("File does not exist", <<"Stat">>, fs.dials)
    ELSE IF kind # "file" THEN Failed("Path is not a file", <<"Stat">>, fs.dials)
    ELSE IF shouldSkip(relPath) THEN Failed("Access denied", <<"Stat">>, fs.dials)
    ELSE [res |-> [kind |-> "content", of |-> Locate(Join(fs.basePath, relPath))],
          access |-> <<"Stat", "ReadFile">>, dials |-> fs.dials]

\* handleReadFile and handleReadResourceTemplate after ValidatePath
\* returned v
readValidated(fs, fsys, v) ==
    IF v.err # NoErr THEN Failed(ErrTraversal, <<>>, fs.dials)
    ELSE readStatted(fs, v.path, FsKind(fs, fsys, v.path))

\* handleReadFile after getFileSystem returned fs
readFileOn(fs, fsys, file) ==
    IF fs.err # NoErr THEN Failed(fs.err, <<>>, fs.dials)
    ELSE readValidated(fs, fsys, ValidatePath(fs.basePath, file))

\* handleReadFile
readFile(m, fsys, repoName, file, connOk) ==
    readFileOn(getFileSystem(m, repoName, connOk), fsys, file)

\* handleReadResourceTemplate for repo://repoName/file after getFileSystem
\* returned fs
readResourceOn(fs, fsys, file) ==
    IF fs.err # NoErr THEN Failed(fs.err, <<>>, fs.dials)
    ELSE IF file = <<>> THEN Failed("no file path specified in URI", <<>>, fs.dials)
    ELSE readValidated(fs, fsys, ValidatePath(fs.basePath, file))

\* handleReadResourceTemplate
readResource(m, fsys, repoName, file, connOk) ==
    readResourceOn(getFileSystem(m, repoName, connOk), fsys, file)

-----------------------------------------------------------------------------
(* One request against a registry with a local repository docs and an ssh   *)
(* repository svc, each holding the tree below its root                     *)

\* the local roots: a clean path, a hidden directory written with a trailing
\* separator, and the working directory written "./"
ServeBases == {<<"/", "r">>, <<"/", ".", "r", "/">>, <<".", "/">>}

ServeRegistry(base) ==
    [n \in {"docs", "svc"} |->
        IF n = "docs" THEN [NoRepository EXCEPT !.type = "local", !.path = base]
        ELSE WithDefaults(SshSvc)]

ServeRepoNames == {"docs", "svc", "lib"}

ServePaths == {Dot, NameSrc, NameSrc \o <<Sep>> \o NameATs, NameGit, DotDot}

ServePatterns == {<<"*", ".", "t", "s">>, <<"*">>, NameCTs}

NoResult == [kind |-> "none"]

ServeInit ==
    /\ tree \in Trees
    /\ \E base \in ServeBases : repos = ServeRegistry(base)
    /\ qpc = "ready"
    /\ qtool = "none"
    /\ qrepo = ""
    /\ qarg = <<>>
    /\ qrecursive = FALSE
    /\ qres = NoResult
    /\ qaccess = <<>>
    /\ qdials = 0
    /\ reposMux = [w |-> NoLock, r |-> {}]
    /\ configFile = DocMissing
    /\ events = <<>>
    /\ watched = FALSE
    /\ wpc = "none"
    /\ wev = {}
    /\ wphase = 0
    /\ wnew = <<>>
    /\ wdoc = DocMissing
    /\ wbefore = <<>>
    /\ rpc = <<>>
    /\ rname = <<>>
    /\ rres = <<>>
    /\ rsnap = <<>>

ServeIdle ==
    /\ tree = {}
    /\ qpc = "none"
    /\ qtool = "none"
    /\ qrepo = ""
    /\ qarg = <<>>
    /\ qrecursive = FALSE
    /\ qres = NoResult
    /\ qaccess = <<>>
    /\ qdials = 0

\* the file system behind the repository of that name
FsysOf(m, name, t) ==
    [root |-> IF name \in DOMAIN m THEN Locate(m[name].path) ELSE <<>>,
     tree |-> t, unreadable |-> {}, unstattable |-> {}]

\* what a call of the operating system or of the SFTP server leaves of the
\* tree t: os.Stat, os.ReadDir, os.ReadFile and filepath.Walk, and sftp's
\* Stat, ReadDir and Open with Read, leave it as it is; RemoveAll empties it
FsEffect(t, call) ==
    IF call \in {"Stat", "ReadDir", "ReadFile", "Walk"} THEN t
    ELSE IF call = "RemoveAll" THEN {}
    ELSE t

RECURSIVE TreeAfter(_, _, _)
\* the tree after the calls from the i-th on
TreeAfter(t, access, i) ==
    IF i > Len(access) THEN t
    ELSE TreeAfter(FsEffect(t, access[i]), access, i + 1)

\* the request is answered with r
Answered(tool, name, arg, recursive, r) ==
    /\ qpc' = "done"
    /\ qtool' = tool
    /\ qrepo' = name
    /\ qarg' = arg
    /\ qrecursive' = recursive
    /\ qres' = r.res
    /\ qaccess' = r.access
    /\ qdials' = r.dials

handleListFiles ==
    /\ qpc = "ready"
    /\ \E name \in ServeRepoNames, path \in ServePaths, recursive \in BOOLEAN, connOk \in BOOLEAN :
          Answered("list_files", name, path, recursive,
                   listFiles(repos, FsysOf(repos, name, tree), name, path, recursive, connOk))
    /\ tree' = TreeAfter(tree, qaccess', 1)
    /\ UNCHANGED regVars
    /\ UNCHANGED outsideServe

handleSearchFiles ==
    /\ qpc = "ready"
    /\ \E name \in ServeRepoNames, pattern \in ServePatterns, connOk \in BOOLEAN :
          Answered("search_files", name, pattern, FALSE,
                   searchFiles(repos, FsysOf(repos, name, tree), name, pattern, connOk))
    /\ tree' = TreeAfter(tree, qaccess', 1)
    /\ UNCHANGED regVars
    /\ UNCHANGED outsideServe

ServeReadFile ==
    /\ qpc = "ready"
    /\ \E name \in ServeRepoNames, file \in ServePaths, connOk \in BOOLEAN :
          Answered("read_file", name, file, FALSE,
                   readFile(repos, FsysOf(repos, name, tree), name, file, connOk))
    /\ tree' = TreeAfter(tree, qaccess', 1)
    /\ UNCHANGED regVars
    /\ UNCHANGED outsideServe

ServeReadResource ==
    /\ qpc = "ready"
    /\ \E name \in ServeRepoNames, file \in ServePaths \cup {<<>>}, connOk \in BOOLEAN :
          Answered("repo://", name, file, FALSE,
                   readResource(repos, FsysOf(repos, name, tree), name, file, connOk))
    /\ tree' = TreeAfter(tree, qaccess', 1)
    /\ UNCHANGED regVars
    /\ UNCHANGED outsideServe

ServeNext == handleListFiles \/ handleSearchFiles \/ ServeReadFile \/ ServeReadResource

-----------------------------------------------------------------------------
(* ssh.go: one call of RemoteFS.Walk or RemoteFS.ReadFile on a RemoteFS     *)
(* whose base path is RemoteBase.  The visit function of Walk records its   *)
(* calls and returns SkipDir for the paths in fprune; what the SFTP server  *)
(* delivers to ReadFile is the environment's choice.                        *)

RemoteBase == <<"/", "p">>

NameMissing == <<"x">>

WalkRoots == {Dot, NameSrc, NameCTs, NameMissing}

\* the paths a visit function may ask to prune: four directories and a file
PrunePaths ==
    {RemoteBase,
     RemoteBase \o <<Sep>> \o NameSrc,
     RemoteBase \o <<Sep>> \o NameGit,
     RemoteBase \o <<Sep>> \o NodeModules,
     RemoteBase \o <<Sep>> \o NameCTs}

MaxPrune == 2

\* the paths a visit function may answer with an error of its own
FailPaths == {RemoteBase \o <<Sep>> \o NameSrc \o <<Sep>> \o NameATs}

VisitReturns == {"nil", "SkipDir", "err"}

\* the failures of the SFTP server: none, the listing of the base directory
\* or of s, or the Stat of .g after it was listed
Faults ==
    {[unreadable |-> {}, unstattable |-> {}],
     [unreadable |-> {Locate(RemoteBase)}, unstattable |-> {}],
     [unreadable |-> {Locate(RemoteBase \o <<Sep>> \o NameSrc)}, unstattable |-> {}],
     [unreadable |-> {}, unstattable |-> {Locate(RemoteBase \o <<Sep>> \o NameGit)}]}

MaxSize == 2

ReadErrs == {"nil", "EOF", "io"}

NoWalk == [ret |-> "none", out |-> <<>>]

NoIo == [open |-> FALSE, stat |-> FALSE, size |-> 0, n |-> 0, err |-> "nil"]

NoData == [ok |-> FALSE, len |-> 0]

RemoteInit ==
    /\ ftree \in Trees
    /\ \E f \in Faults : funreadable = f.unreadable /\ funstattable = f.unstattable
    /\ fpc = "ready"
    /\ fop = "none"
    /\ fstart = <<>>
    /\ fprune = {}
    /\ ffail = {}
    /\ fonerr = "nil"
    /\ fwalked = NoWalk
    /\ fio = NoIo
    /\ fdata = NoData

RemoteIdle ==
    /\ ftree = {}
    /\ funreadable = {}
    /\ funstattable = {}
    /\ fpc = "none"
    /\ fop = "none"
    /\ fstart = <<>>
    /\ fprune = {}
    /\ ffail = {}
    /\ fonerr = "nil"
    /\ fwalked = NoWalk
    /\ fio = NoIo
    /\ fdata = NoData

\* the visit function of the call
WalkFn(prune, fail, onErr) == [fn |-> "record", prune |-> prune, fail |-> fail, onErr |-> onErr]

\* what the SFTP server holds and where it fails
RemoteFsys ==
    [root |-> Locate(RemoteBase), tree |-> ftree,
     unreadable |-> funreadable, unstattable |-> funstattable]

\* a caller runs RemoteFS.Walk(root, fn)
CallWalk ==
    /\ fpc = "ready"
    /\ \E root \in WalkRoots, prune \in {q \in SUBSET PrunePaths : Cardinality(q) <= MaxPrune},
          fail \in SUBSET FailPaths, onErr \in VisitReturns :
          /\ fstart' = root
          /\ fprune' = prune
          /\ ffail' = fail
          /\ fonerr' = onErr
          /\ fwalked' = RemoteWalk(WalkFn(prune, fail, onErr), RemoteFsys, RemoteBase, root)
    /\ fop' = "Walk"
    /\ fpc' = "done"
    /\ UNCHANGED <<ftree, funreadable, funstattable, fio, fdata>>
    /\ UNCHANGED outsideRemote

\* RemoteFS.ReadFile once sftp.Open, file.Stat and file.Read delivered io:
\* data is made of stat.Size() bytes, the count returned by Read is dropped
\* and only an error other than EOF makes the call fail
ReadFile(io) ==
    IF ~io.open \/ ~io.stat THEN [ok |-> FALSE, len |-> 0]
    ELSE IF io.err # "nil" /\ io.err # "EOF" THEN [ok |-> FALSE, len |-> 0]
    ELSE [ok |-> TRUE, len |-> io.size]

\* a caller runs RemoteFS.ReadFile(path): Open and Stat succeed or fail,
\* Stat reports size bytes and Read fills n of them, with err
CallReadFile ==
    /\ fpc = "ready"
    /\ \E open \in BOOLEAN, stat \in BOOLEAN, size \in 0..MaxSize, err \in ReadErrs :
          \E n \in 0..size :
             /\ fio' = [open |-> open, stat |-> open /\ stat,
                        size |-> IF open /\ stat THEN size ELSE 0,
                        n |-> IF open /\ stat THEN n ELSE 0,
                        err |-> IF open /\ stat THEN err ELSE "nil"]
             /\ fdata' = ReadFile(fio')
    /\ fop' = "ReadFile"
    /\ fpc' = "done"
    /\ UNCHANGED <<ftree, funreadable, funstattable, fstart, fprune, ffail, fonerr, fwalked>>
    /\ UNCHANGED outsideRemote

RemoteNext == CallWalk \/ CallReadFile

-----------------------------------------------------------------------------
(* Properties of RemoteFS *)

\* C19: RemoteFS.ReadFile returns data only when the read filled all the
\* bytes Stat reported or ended at the end of the file; a read that delivers
\* fewer bytes without an end-of-file condition is an error.
C19_ShortReadIsError ==
    (fpc = "done" /\ fop = "ReadFile" /\ fdata.ok) =>
        fio.n = fio.size \/ fio.err = "EOF"

\* the path Walk starts at
WalkStart == Join(RemoteBase, fstart)

\* the directory a path lies in
LastSep(p) == CHOOSE i \in 1..Len(p) : p[i] = Sep /\ \A j \in (i + 1)..Len(p) : p[j] # Sep

ParentPath(p) == SubSeq(p, 1, LastSep(p) - 1)

\* p lies below the directory d
Below(d, p) == Len(p) > Len(d) + 1 /\ IsPrefixSeq(d \o <<Sep>>, p)

\* C20: RemoteFS.Walk on an existing start, with a visit function that asks
\* for pruning on directories only and with every directory listable, visits
\* the start first and every other node after the directory it lies in, which
\* was not pruned; visits every entry of a visited directory that was not
\* pruned, no path twice; visits the nodes below a directory in one run after
\* it; and returns no error.
C20_PreOrderWithPruning ==
    (/\ fpc = "done" /\ fop = "Walk"
     /\ KindAt(Locate(RemoteBase), ftree, Locate(WalkStart)) # "missing"
     /\ \A q \in fprune : KindAt(Locate(RemoteBase), ftree, Locate(q)) = "dir"
     /\ ffail = {}
     /\ funreadable = {} /\ funstattable = {}) =>
        /\ fwalked.ret = "nil"
        /\ Len(fwalked.out) >= 1
        /\ fwalked.out[1].path = WalkStart
        /\ \A i \in 1..Len(fwalked.out) :
              /\ ~fwalked.out[i].err
              /\ fwalked.out[i].kind =
                    KindAt(Locate(RemoteBase), ftree, Locate(fwalked.out[i].path))
        /\ \A i, j \in 1..Len(fwalked.out) :
              fwalked.out[i].path = fwalked.out[j].path => i = j
        /\ \A j \in 2..Len(fwalked.out) :
              \E i \in 1..(j - 1) :
                 /\ fwalked.out[i].path = ParentPath(fwalked.out[j].path)
                 /\ fwalked.out[i].kind = "dir"
                 /\ fwalked.out[i].path \notin fprune
        /\ \A i \in 1..Len(fwalked.out) :
              (fwalked.out[i].kind = "dir" /\ fwalked.out[i].path \notin fprune) =>
                 \A e \in EntriesAt(Locate(RemoteBase), ftree, Locate(fwalked.out[i].path)) :
                    \E j \in 1..Len(fwalked.out) :
                       fwalked.out[j].path = fwalked.out[i].path \o <<Sep>> \o e.name
        /\ \A i, j, k \in 1..Len(fwalked.out) :
              (i < j /\ j < k /\ Below(fwalked.out[i].path, fwalked.out[k].path)) =>
                 Below(fwalked.out[i].path, fwalked.out[j].path)

\* the walk from the base path met node_modules with a file in it, was asked
\* to prune it, and went on to the directory s and the file in it
C20_Witness ==
    /\ fpc = "done" /\ fop = "Walk" /\ fstart = Dot
    /\ funreadable = {} /\ funstattable = {} /\ ffail = {}
    /\ fprune = {RemoteBase \o <<Sep>> \o NodeModules}
    /\ [path |-> <<NodeModules, NameATs>>, kind |-> "file"] \in ftree
    /\ fwalked.ret = "nil"
    /\ [i \in 1..Len(fwalked.out) |-> fwalked.out[i].path] =
          <<RemoteBase,
            RemoteBase \o <<Sep>> \o NodeModules,
            RemoteBase \o <<Sep>> \o NameSrc,
            RemoteBase \o <<Sep>> \o NameSrc \o <<Sep>> \o NameATs>>

\* what the visit function returned for the recorded call v
Answer(v) ==
    IF v.err THEN fonerr
    ELSE IF v.path \in ffail THEN "err"
    ELSE IF v.path \in fprune THEN "SkipDir"
    ELSE "nil"

\* C21: in RemoteFS.Walk a failed Stat of the start is handed to the visit
\* function and its answer is the result; a directory whose listing fails is
\* handed to the visit function with the error right after its visit; a
\* listed directory whose Stat fails is handed to it with the error; an answer
\* other than nil to an error ends the walk with that answer; and the walk
\* returns nothing but the answer of its last visit.
C21_FailuresReachVisit ==
    (fpc = "done" /\ fop = "Walk") =>
        /\ StatAt(RemoteFsys, Locate(WalkStart)) = "missing" =>
              /\ fwalked.out = <<[path |-> WalkStart, kind |-> "missing", err |-> TRUE]>>
              /\ fwalked.ret = fonerr
        /\ \A i \in 1..Len(fwalked.out) :
              (/\ ~fwalked.out[i].err
               /\ fwalked.out[i].kind = "dir"
               /\ Locate(fwalked.out[i].path) \in funreadable
               /\ Answer(fwalked.out[i]) = "nil") =>
                 /\ i < Len(fwalked.out)
                 /\ fwalked.out[i + 1] = [fwalked.out[i] EXCEPT !.err = TRUE]
        /\ \A i \in 1..Len(fwalked.out) :
              (/\ fwalked.ret = "nil"
               /\ ~fwalked.out[i].err
               /\ fwalked.out[i].kind = "dir"
               /\ Locate(fwalked.out[i].path) \notin funreadable
               /\ Answer(fwalked.out[i]) = "nil") =>
                 \A e \in EntriesAt(Locate(RemoteBase), ftree, Locate(fwalked.out[i].path)) :
                    Locate(fwalked.out[i].path) \o <<e.name>> \in funstattable =>
                       \E j \in (i + 1)..Len(fwalked.out) :
                          fwalked.out[j] = [path |-> fwalked.out[i].path \o <<Sep>> \o e.name,
                                            kind |-> "missing", err |-> TRUE]
        /\ \A j \in 1..Len(fwalked.out) :
              (fwalked.out[j].err /\ fonerr # "nil") =>
                 j = Len(fwalked.out) /\ fwalked.ret = fonerr
        /\ fwalked.ret # "nil" =>
              /\ Len(fwalked.out) >= 1
              /\ Answer(fwalked.out[Len(fwalked.out)]) = fwalked.ret

\* the Stat of the listed directory .g failed, the visit function got the
\* error and returned nil, and the walk went on to c.ts
C21_Witness ==
    /\ fpc = "done" /\ fop = "Walk" /\ fstart = Dot
    /\ fonerr = "nil"
    /\ fwalked.ret = "nil"
    /\ fwalked.out =
          <<[path |-> RemoteBase, kind |-> "dir", err |-> FALSE],
            [path |-> RemoteBase \o <<Sep>> \o NameGit, kind |-> "missing", err |-> TRUE],
            [path |-> RemoteBase \o <<Sep>> \o NameCTs, kind |-> "file", err |-> FALSE]>>

\* the paths on which a walk called the visit function
VisitedPaths(w) == {w.out[i].path : i \in 1..Len(w.out)}

\* what LocalFS.Walk does and returns on the tree, the start and the visit
\* function of the call of RemoteFS.Walk
LocalWalked == LocalWalk(WalkFn(fprune, ffail, fonerr), RemoteFsys, RemoteBase, fstart)

\* C30: RemoteFS.Walk calls the visit function on the same paths and returns
\* the same result as LocalFS.Walk does on the same tree, start and visit
\* function.
C30_WalksAgree ==
    (fpc = "done" /\ fop = "Walk") =>
        /\ VisitedPaths(fwalked) = VisitedPaths(LocalWalked)
        /\ fwalked.ret = LocalWalked.ret

-----------------------------------------------------------------------------
(* Properties of the request handlers *)

SeqRange(q) == {q[i] : i \in 1..Len(q)}

NoDuplicates(q) == \A i, j \in 1..Len(q) : q[i] = q[j] => i = j

\* C16: a request for a repository that is not in the map is answered with
\* the unknown-repository error, without a call of the FileSystem and without
\* asking the pool for a connection.
C16_UnknownRepositoryFails ==
    (qpc = "done" /\ qrepo \notin DOMAIN repos) =>
        /\ qres = [kind |-> "error", msg |-> ErrUnknownRepo]
        /\ qaccess = <<>>
        /\ qdials = 0

\* each of the four requests was made for the repository lib, which is not
\* configured, and failed
C16_Witness ==
    /\ qpc = "done"
    /\ qrepo = "lib"
    /\ qtool = "search_files"
    /\ tree # {}
    /\ qres.kind = "error"

\* the elements of the directory or file a request for qarg in repository
\* qrepo is about
TargetElems ==
    Locate(repos[qrepo].path) \o (IF qarg = Dot THEN <<>> ELSE SplitSep(qarg))

\* the listing the entries of the target directory call for
ListingExpected ==
    {IF e.kind = "dir" THEN e.name \o <<Sep>> ELSE e.name :
        e \in {f \in EntriesAt(Locate(repos[qrepo].path), tree, TargetElems) : ~Excluded(f.name)}}

\* C17: list_files without recursion on an existing directory answers with
\* the names of the entries of that directory that are neither hidden nor
\* node_modules, each once, a directory with "/" appended and any other
\* entry as it is; only a refused connection makes it fail.
C17_ListingExact ==
    (/\ qpc = "done" /\ qtool = "list_files" /\ ~qrecursive
     /\ qrepo \in DOMAIN repos
     /\ qarg # DotDot
     /\ KindAt(Locate(repos[qrepo].path), tree, TargetElems) = "dir") =>
        IF qres.kind = "error"
        THEN qres.msg = "failed to connect"
        ELSE /\ qres.kind = "files"
             /\ SeqRange(qres.list) = ListingExpected
             /\ NoDuplicates(qres.list)

\* the root of docs holds the directories s and .g and the file c.ts, and
\* the listing is c.ts and s/
C17_Witness ==
    /\ qpc = "done" /\ qtool = "list_files" /\ ~qrecursive
    /\ qrepo = "docs" /\ qarg = Dot
    /\ [path |-> <<NameGit>>, kind |-> "dir"] \in tree
    /\ qres = [kind |-> "files", list |-> <<NameCTs, NameSrc \o <<Sep>>>>]

\* the regular files of the tree that match the pattern and have no hidden
\* or node_modules element on their path, as paths relative to the root
SearchExpected ==
    {JoinSep(n.path) :
        n \in {m \in tree : /\ m.kind = "file"
                            /\ \A i \in 1..Len(m.path) : ~Excluded(m.path[i])
                            /\ Match(qarg, m.path[Len(m.path)])}}

\* C18: search_files answers with the paths, relative to the root, of the
\* regular files whose base name matches the pattern and that are neither
\* hidden or node_modules themselves nor below such a directory.
C18_SearchExact ==
    (qpc = "done" /\ qtool = "search_files" /\ qres.kind = "matches") =>
        SeqRange(qres.list) = SearchExpected

\* the directory a recursive list_files or a search_files starts its walk at
WalkStartElems ==
    IF qtool = "list_files" THEN TargetElems ELSE Locate(repos[qrepo].path)

\* C29: every path a recursive list_files or a search_files returns names,
\* relative to the directory the walk started at, a regular file of the tree,
\* and none of its elements is hidden or node_modules: nothing below a hidden
\* or node_modules directory under the start is returned.
C29_SubtreesPruned ==
    (/\ qpc = "done"
     /\ (qtool = "list_files" /\ qrecursive) \/ qtool = "search_files"
     /\ qres.kind \in {"files", "matches"}) =>
        \A i \in 1..Len(qres.list) :
            /\ qres.list[i] # <<>>
            /\ \A j \in 1..Len(SplitSep(qres.list[i])) : ~Excluded(SplitSep(qres.list[i])[j])
            /\ KindAt(Locate(repos[qrepo].path), tree,
                      WalkStartElems \o SplitSep(qres.list[i])) = "file"

\* the tree holds c.ts inside the hidden directory .g and a.ts inside s; the
\* recursive listing of the root of the ssh repository returns s/a.ts only
C29_Witness ==
    /\ qpc = "done" /\ qtool = "list_files" /\ qrecursive
    /\ qrepo = "svc" /\ qarg = Dot
    /\ [path |-> <<NameGit, NameCTs>>, kind |-> "file"] \in tree
    /\ [path |-> <<NameSrc, NameATs>>, kind |-> "file"] \in tree
    /\ qres = [kind |-> "files", list |-> <<JoinSep(<<NameSrc, NameATs>>)>>]

\* C22: no list_files, read_file, search_files or resource read, on the
\* local or the ssh repository, changes the tree of a repository.
C22_ReadOnly == [][tree' = tree]_vars

\* a file of the ssh repository was read through read_file
C22_Witness ==
    /\ qpc = "done" /\ qtool = "read_file" /\ qrepo = "svc"
    /\ qres.kind = "content"
    /\ qaccess = <<"Stat", "ReadFile">>
    /\ [path |-> <<NameSrc, NameATs>>, kind |-> "file"] \in tree

-----------------------------------------------------------------------------
(* The two locks together: the goroutine of a handler looks a repository up *)
(* in the registry and then asks the pool for a connection, while the       *)
(* watcher reloads and main closes the pool.                                *)

\* the goroutine of handler q inside the pool
Caller(q) == IF q = "q1" THEN "h1" ELSE "h2"

LockHandlers == {"q1"}

LockCallers == {Caller(q) : q \in LockHandlers}

MaxLockCalls == 2

\* the configuration file is saved with both repositories or with a
\* document that does not parse
ConfigSaved ==
    /\ configFile' \in {DocBoth, DocGarbage}
    /\ FileEvent

\* a tool handler calls getFileSystem
HandlerGetFileSystem(q) ==
    /\ tpc[Caller(q)] \in {"idle", "returned"}
    /\ GetFileSystemRLock(q)

\* list_repos is called
HandlerListRepos(q) ==
    /\ tpc[Caller(q)] \in {"idle", "returned"}
    /\ ListReposRLock(q)

\* getFileSystem: return repo.GetFileSystem(sshPool), which for an ssh
\* repository is sshPool.GetRemoteFS(repo) and so getConnection(repo)
HandlerGetConnection(q) ==
    /\ rpc[q] = "done"
    /\ calls < MaxLockCalls
    /\ rres[q].kind = "repo"
    /\ rres[q].repo.type = "ssh"
    /\ GetConnectionEnter(Caller(q))
    /\ SameTriple(trepo'[Caller(q)], rres[q].repo)

LockNext ==
    \/ ConfigSaved
    \/ WatchReceive
    \/ WatchReAdd
    \/ WatchSettle
    \/ ReloadRLock
    \/ ReloadReadPath
    \/ ReloadParse
    \/ ReloadFailed
    \/ ReloadLock
    \/ ReloadPublish
    \/ LogRLock
    \/ LogNames
    \/ \E q \in LockHandlers : HandlerGetFileSystem(q)
    \/ \E q \in LockHandlers : GetFileSystemRead(q)
    \/ \E q \in LockHandlers : HandlerListRepos(q)
    \/ \E q \in LockHandlers : ListReposRange(q)
    \/ \E q \in LockHandlers : ListReposReturn(q)
    \/ \E q \in LockHandlers : HandlerGetConnection(q)
    \/ \E t \in LockCallers : LookupRLock(t)
    \/ \E t \in LockCallers : Lookup(t)
    \/ \E t \in LockCallers : Probe(t)
    \/ \E t \in LockCallers : EvictLock(t)
    \/ \E t \in LockCallers : Evict(t)
    \/ \E t \in LockCallers : ConnectDial(t)
    \/ \E t \in LockCallers : ConnectSftp(t)
    \/ \E t \in LockCallers : InsertLock(t)
    \/ \E t \in LockCallers : Insert(t)
    \/ CloseLock
    \/ CloseAll

\* t holds the pool lock, q the registry lock
HoldsPool(t) == t \in pmu.r \/ pmu.w = t
HoldsRegistry(q) == q \in reposMux.r \/ reposMux.w = q

\* a goroutine is inside an operation
Busy ==
    \/ wpc # "select"
    \/ cpc = "closing"
    \/ \E q \in LockHandlers : rpc[q] \notin {"idle", "done"}
    \/ \E t \in LockCallers : tpc[t] \notin {"idle", "returned"}

\* a goroutine inside an operation is at a step that waits for nothing, or
\* at a lock operation on a lock that can be taken
CanStep ==
    \/ wpc \in {"rewatch", "settle", "reload_path", "reload_read", "reload_failed",
                 "reload_publish", "log_names"}
    \/ wpc \in {"reload", "log_rlock"} /\ CanRLock(reposMux)
    \/ wpc = "reload_lock" /\ CanLock(reposMux)
    \/ cpc = "closing"
    \/ \E q \in LockHandlers : rpc[q] \in {"get_read", "list_range", "list_count"}
    \/ \E t \in LockCallers :
          \/ tpc[t] \in {"rlocked", "probe", "evlocked", "dial", "sftp", "inslocked"}
          \/ tpc[t] = "rlock" /\ CanRLock(pmu)
          \/ tpc[t] \in {"evlock", "inslock"} /\ CanLock(pmu)

\* C33: no goroutine holds the registry lock and the pool lock together, nor
\* waits for one while it holds the other; each lock is held only between an
\* acquisition and the access it guards, where the next step of the holder
\* releases it; and whenever a goroutine is inside an operation, some
\* goroutine inside an operation can take a step.
C33_LocksNeverNested ==
    /\ \A q \in Handlers :
          /\ ~(HoldsRegistry(q) /\ HoldsPool(Caller(q)))
          /\ HoldsRegistry(q) => tpc[Caller(q)] \in {"idle", "returned"}
          /\ HoldsPool(Caller(q)) => rpc[q] \in {"idle", "done"}
          /\ q \in reposMux.r => rpc[q] \in {"get_read", "list_range", "list_count"}
          /\ reposMux.w # q
    /\ "watcher" \in reposMux.r => wpc \in {"reload_path", "log_names"}
    /\ reposMux.w # NoLock => (reposMux.w = "watcher" /\ wpc = "reload_publish")
    /\ \A t \in pmu.r : tpc[t] = "rlocked"
    /\ pmu.w \in Callers => tpc[pmu.w] \in {"evlocked", "inslocked"}
    /\ pmu.w \notin Callers => (pmu.w = NoLock \/ cpc = "closing")
    /\ Busy => CanStep

\* the handler's goroutine holds the pool lock for its insert while the
\* watcher holds the registry lock for its assignment and Close has not run
C33_Witness ==
    /\ pmu.w = "h1"
    /\ tpc["h1"] = "inslocked"
    /\ reposMux.w = "watcher"
    /\ rpc["q1"] = "done"
    /\ cpc = "running"

-----------------------------------------------------------------------------
(* Specifications *)

InitPath == PathInit /\ PoolIdle /\ RegIdle /\ SkipIdle /\ LoadIdle /\ ServeIdle /\ RemoteIdle

SpecPath == InitPath /\ [][PathNext]_vars

InitPool == PoolInit /\ PathIdle /\ RegIdle /\ SkipIdle /\ LoadIdle /\ ServeIdle /\ RemoteIdle

SpecPool == InitPool /\ [][PoolNext]_vars

InitReg == RegInit /\ PathIdle /\ PoolIdle /\ SkipIdle /\ LoadIdle /\ ServeIdle /\ RemoteIdle

SpecReg == InitReg /\ [][RegNext]_vars

InitSkip == SkipInit /\ PathIdle /\ PoolIdle /\ RegIdle /\ LoadIdle /\ ServeIdle /\ RemoteIdle

SpecSkip == InitSkip /\ [][SkipNext]_vars

InitLoad == LoadInit /\ PathIdle /\ PoolIdle /\ SkipIdle /\ ServeIdle /\ RemoteIdle

SpecLoad == InitLoad /\ [][LoadNext]_vars

InitServe == ServeInit /\ PathIdle /\ PoolIdle /\ SkipIdle /\ LoadIdle /\ RemoteIdle

SpecServe == InitServe /\ [][ServeNext]_vars

InitRemote == RemoteInit /\ PathIdle /\ PoolIdle /\ RegIdle /\ SkipIdle /\ LoadIdle /\ ServeIdle

SpecRemote == InitRemote /\ [][RemoteNext]_vars


InitLock ==
    RegInit /\ configFile = DocBoth /\ PoolInit /\ PathIdle /\ SkipIdle /\ LoadIdle /\ ServeIdle
        /\ RemoteIdle

SpecLock == InitLock /\ [][LockNext]_vars

====
